---- MODULE Spec2Model ----
(***************************************************************************)
(* Model of the hybrid retrieval engine of CV_Screen_AI:                   *)
(*   app/services/search/rrf.py      Reciprocal Rank Fusion                *)
(*   app/services/search/bm25.py     lexical index                         *)
(*   app/services/search/hybrid.py   orchestrator                          *)
(*   app/services/utils/cache.py     result cache                          *)
(*   app/services/chat/rag_chain.py  three-layer fallback                  *)
(*                                                                         *)
(* Scores that the program keeps as floats are kept here as exact          *)
(* integers: an RRF score s stands for the rational s / RRFScale, where    *)
(* RRFScale is a common multiple of every k + rank that can occur.         *)
(***************************************************************************)
EXTENDS Integers, Sequences, FiniteSets, TLC

VARIABLES
    rrfA,        \* merge input: bm25_results, a sequence of <<doc_id, candidate_id>>
    rrfB,        \* merge input: vector_results
    rrfOut,      \* result of RRFMerger.merge(rrfA, rrfB)
    rrfCand,     \* result of RRFMerger.merge_candidate_level(rrfA, rrfB)
    rrfHybrid,   \* result of HybridSearchEngine._build_search_results on merge(rrfA, rrfB)
    rrfDone,     \* which of the three operations have been applied
    rrfWeighted, \* the weights and the result of RRFMerger.merge_with_weights, or NoWeighted
    db,          \* persisted chunks (the Chunk table), in insertion order
    bm25,        \* the BM25Search instance of the search engine singleton
    cache,       \* the Redis store behind RedisCache
    now,         \* wall-clock time in seconds
    lastCall,    \* the most recent HybridSearchEngine.search call and its result
    ixPc,        \* position of a running BM25Search.index_documents, or "idle"
    ixLast,      \* the most recent operation on the BM25Search instance
    detFixed,    \* the request and the provider responses held fixed
    detRuns,     \* what the invocations of search with detFixed gave so far
    callPc,      \* position of a search call that is followed step by step
    callArg,     \* its request, its collaborators and its expanded queries
    memStore,    \* the Redis lists behind ConversationMemory, by key
    memLog,      \* the messages given to add_message so far, by session, oldest first
    memLast,     \* the most recent get_history call and its result
    ivIn,        \* the intervals given to merge_intervals
    ivToday,     \* what date.today() returns
    ivOut,       \* what merge_intervals returned, once it has run
    awPc,        \* position of each caller of add_candidate_chunks
    awDocs,      \* the current_docs list of each caller
    fbPc,        \* position of RAGChain._search_with_fallback
    fbRequest,   \* its search_request argument
    fbTrace,     \* the search calls it has made so far, oldest first
    fbResult     \* the tuple it returned

rrfVars == <<rrfA, rrfB, rrfOut, rrfCand, rrfHybrid, rrfDone, rrfWeighted>>

engineVars == <<db, bm25, cache, now, lastCall>>

fbVars == <<fbPc, fbRequest, fbTrace, fbResult>>

ixVars == <<ixPc, ixLast>>

detVars == <<detFixed, detRuns>>

callVars == <<callPc, callArg>>

memVars == <<memStore, memLog, memLast>>

ivVars == <<ivIn, ivToday, ivOut>>

awVars == <<awPc, awDocs>>

vars == <<rrfVars, engineVars, fbVars, ixVars, detVars, callVars, memVars, ivVars, awVars>>

----------------------------------------------------------------------------
(* Bounds *)

MaxLen == 2          \* longest ranked list given to the fusion engine
MaxTicks == 2        \* number of clock ticks
TickSeconds == 150   \* seconds per clock tick

DocIds == {"d1", "d2", "d3"}
CandIds == {"c1", "c2"}

----------------------------------------------------------------------------
(* Generic helpers *)

None == 0            \* Optional[int] rank that is absent (ranks are 1-based)

Range(s) == {s[i] : i \in 1..Len(s)}

Max2(a, b) == IF a >= b THEN a ELSE b

Min2(a, b) == IF a <= b THEN a ELSE b

RECURSIVE Gcd(_, _)
Gcd(a, b) == IF b = 0 THEN a ELSE Gcd(b, a % b)

Lcm(a, b) == (a \div Gcd(a, b)) * b

RECURSIVE LcmUpTo(_, _)
LcmUpTo(k, n) == IF n = 0 THEN 1 ELSE Lcm(LcmUpTo(k, n - 1), k + n)

SeqsUpTo(S, n) == UNION {[1..m -> S] : m \in 0..n}

NoDup(s) == \A i, j \in 1..Len(s) : s[i][1] = s[j][1] => i = j

----------------------------------------------------------------------------
(* rrf.py *)

RRF_K == 60

\* every rank the model can produce is at most MaxRank
MaxRank == Max2(MaxLen, Cardinality(DocIds))

RRFScale == LcmUpTo(RRF_K, MaxRank)

\* enumerate(results) without the start value 1: ranks counted from 0
RecipZeroBased(rank) == RRFScale \div (RRF_K + rank - 1)

\* 1.0 / (self.k + rank), as a multiple of 1/RRFScale
Recip(rank) == RRFScale \div (RRF_K + rank)

\* index of doc_id in the insertion-ordered dict doc_data, 0 when absent
RECURSIVE IndexOf(_, _, _)
IndexOf(data, doc_id, i) ==
    IF i > Len(data) THEN 0
    ELSE IF data[i].doc_id = doc_id THEN i
    ELSE IndexOf(data, doc_id, i + 1)

\* one iteration of "for rank, (doc_id, cand_id, score) in enumerate(results, 1)"
AddRankedEntry(data, entry, rank, source) ==
    LET pos == IndexOf(data, entry[1], 1)
        d0 == IF pos = 0
              THEN Append(data, [doc_id |-> entry[1], candidate_id |-> entry[2],
                                 rrf_score |-> 0, keyword_rank |-> None,
                                 semantic_rank |-> None])
              ELSE data
        p == IF pos = 0 THEN Len(d0) ELSE pos
        d1 == IF source = "keyword"
              THEN [d0 EXCEPT ![p].keyword_rank = rank]
              ELSE [d0 EXCEPT ![p].semantic_rank = rank]
    IN  [d1 EXCEPT ![p].rrf_score = @ + Recip(rank)]

RECURSIVE ProcessList(_, _, _, _)
ProcessList(data, results, i, source) ==
    IF i > Len(results) THEN data
    ELSE ProcessList(AddRankedEntry(data, results[i], i, source), results, i + 1, source)

\* list.sort(key=..., reverse=True) on the keys: descending and stable; the
\* result is the permutation of indices
\* an insertion that puts an entry before the entries of equal key: the
\* order is descending, but equal keys come out in reverse input order
RECURSIVE InsertDescBeforeEqual(_, _, _, _)
InsertDescBeforeEqual(keys, perm, x, i) ==
    IF i > Len(perm) THEN Append(perm, x)
    ELSE IF keys[perm[i]] <= keys[x]
         THEN SubSeq(perm, 1, i - 1) \o <<x>> \o SubSeq(perm, i, Len(perm))
         ELSE InsertDescBeforeEqual(keys, perm, x, i + 1)

RECURSIVE InsertDesc(_, _, _, _)
InsertDesc(keys, perm, x, i) ==
    IF i > Len(perm) THEN Append(perm, x)
    ELSE IF keys[perm[i]] < keys[x]
         THEN SubSeq(perm, 1, i - 1) \o <<x>> \o SubSeq(perm, i, Len(perm))
         ELSE InsertDesc(keys, perm, x, i + 1)

RECURSIVE SortPermFrom(_, _, _)
SortPermFrom(keys, perm, i) ==
    IF i > Len(keys) THEN perm
    ELSE SortPermFrom(keys, InsertDesc(keys, perm, i, 1), i + 1)

SortPermDesc(keys) == SortPermFrom(keys, <<>>, 1)

\* results.sort(key=lambda x: x.combined_score, reverse=True)
SortDesc(s) ==
    LET perm == SortPermDesc([i \in 1..Len(s) |-> s[i].combined_score])
    IN  [i \in 1..Len(s) |-> s[perm[i]]]

RRFResult(d) ==
    [doc_id |-> d.doc_id, candidate_id |-> d.candidate_id,
     combined_score |-> d.rrf_score,
     keyword_rank |-> d.keyword_rank, semantic_rank |-> d.semantic_rank]

DocData(bm25_results, vector_results) ==
    ProcessList(ProcessList(<<>>, bm25_results, 1, "keyword"),
                vector_results, 1, "semantic")

\* a merge that keeps only the documents the keyword list ranks
MergeKeywordRanked(bm25_results, vector_results) ==
    LET doc_data == SelectSeq(DocData(bm25_results, vector_results),
                              LAMBDA d : d.keyword_rank # None)
    IN  SortDesc([i \in 1..Len(doc_data) |-> RRFResult(doc_data[i])])

Merge(bm25_results, vector_results) ==
    LET doc_data == DocData(bm25_results, vector_results)
    IN  SortDesc([i \in 1..Len(doc_data) |-> RRFResult(doc_data[i])])

\* candidate_scores[result.candidate_id] += result.combined_score, in dict order
RECURSIVE AggregateByCandidate(_, _, _)
AggregateByCandidate(acc, doc_results, i) ==
    IF i > Len(doc_results) THEN acc
    ELSE LET r == doc_results[i]
             hit == {j \in 1..Len(acc) : acc[j].candidate_id = r.candidate_id}
         IN  IF hit = {}
             THEN AggregateByCandidate(
                      Append(acc, [candidate_id |-> r.candidate_id,
                                   combined_score |-> r.combined_score]),
                      doc_results, i + 1)
             ELSE LET j == CHOOSE j \in hit : TRUE
                  IN  AggregateByCandidate(
                          [acc EXCEPT ![j].combined_score = @ + r.combined_score],
                          doc_results, i + 1)

MergeCandidateLevel(bm25_results, vector_results) ==
    SortDesc(AggregateByCandidate(<<>>, Merge(bm25_results, vector_results), 1))

\* one iteration of the inner loop of merge_with_weights: the entry is created
\* at its first appearance, rrf_score += weight / (self.k + rank)
AddWeightedEntry(data, entry, rank, weight) ==
    LET pos == IndexOf(data, entry[1], 1)
        d0 == IF pos = 0
              THEN Append(data, [doc_id |-> entry[1], candidate_id |-> entry[2],
                                 rrf_score |-> 0])
              ELSE data
        p == IF pos = 0 THEN Len(d0) ELSE pos
    IN  [d0 EXCEPT ![p].rrf_score = @ + weight * Recip(rank)]

RECURSIVE ProcessWeightedList(_, _, _, _)
ProcessWeightedList(data, results, i, weight) ==
    IF i > Len(results) THEN data
    ELSE ProcessWeightedList(AddWeightedEntry(data, results[i], i, weight), results, i + 1, weight)

\* "for results, weight in result_lists"
RECURSIVE WeightedDocData(_, _, _)
WeightedDocData(data, result_lists, l) ==
    IF l > Len(result_lists) THEN data
    ELSE WeightedDocData(ProcessWeightedList(data, result_lists[l][1], 1, result_lists[l][2]),
                         result_lists, l + 1)

WeightedResult(d) ==
    [doc_id |-> d.doc_id, candidate_id |-> d.candidate_id,
     combined_score |-> d.rrf_score,
     keyword_rank |-> None, semantic_rank |-> None]

MergeWithWeights(result_lists) ==
    LET doc_data == WeightedDocData(<<>>, result_lists, 1)
    IN  SortDesc([i \in 1..Len(doc_data) |-> WeightedResult(doc_data[i])])

----------------------------------------------------------------------------
(* Text.  A text (document content, query) is a sequence of words; a word  *)
(* is a string without whitespace.                                         *)

\* text.lower(), re.sub(r"[^\w\s]", " ", text), text.split() on one word
WordTokens(w) ==
    CASE w = "Python" -> <<"python">>
      [] w = "Developer" -> <<"developer">>
      [] w = "Engineer" -> <<"engineer">>
      [] w = "Programmer" -> <<"programmer">>
      [] w = "Java" -> <<"java">>
      [] w = "Golang" -> <<"golang">>
      [] w = "C++" -> <<"c">>
      [] w = "Node.js" -> <<"node", "js">>
      [] OTHER -> <<w>>

RECURSIVE SplitLower(_, _)
SplitLower(text, i) ==
    IF i > Len(text) THEN <<>> ELSE WordTokens(text[i]) \o SplitLower(text, i + 1)

MinTokenLen == 2

\* a filter that drops no token
KeepAnyToken(t) == Len(t) >= 1

KeepToken(t) == Len(t) >= MinTokenLen

\* BM25Search._tokenize
Tokenize(text) == SelectSeq(SplitLower(text, 1), KeepToken)

----------------------------------------------------------------------------
(* bm25.py *)

\* idf values and BM25 scores are counted in units of 1/10000
\* self.epsilon = 0.25
Epsilon == 2500

\* np.log((n_docs - df + 0.5) / (df + 0.5) + 1) in units of 1/10000, rounded;
\* row n_docs, column df
LogTable ==
    << <<2877>>,
       <<6931, 1823>>,
       <<9808, 4700, 1335>>,
       <<12040, 6931, 3567, 1054>>,
       <<13863, 8755, 5390, 2877, 870>>,
       <<15404, 10296, 6931, 4418, 2412, 741>>,
       <<16740, 11632, 8267, 5754, 3747, 2076, 645>> >>

\* an idf that grows with the document frequency
IdfOfAbsence(n_docs, df) == Max2(LogTable[n_docs][n_docs - df + 1], Epsilon)

Idf(n_docs, df) == Max2(LogTable[n_docs][df], Epsilon)

RECURSIVE SumSeq(_, _)
SumSeq(s, i) == IF i > Len(s) THEN 0 ELSE s[i] + SumSeq(s, i + 1)

Count(tokens, t) == Cardinality({i \in 1..Len(tokens) : tokens[i] = t})

\* BM25Search.__init__
NewIndex ==
    [documents |-> <<>>, doc_lengths |-> <<>>, avgdl |-> [num |-> 0, den |-> 1],
     idf |-> <<>>, doc_freqs |-> <<>>, indexed |-> FALSE]

\* an index_documents whose average length is rounded down to a whole number
IndexDocumentsWholeAvgdl(documents) ==
    LET docs == [i \in 1..Len(documents) |->
                    [id |-> documents[i].id,
                     candidate_id |-> documents[i].candidate_id,
                     content |-> documents[i].content,
                     tokens |-> Tokenize(documents[i].content)]]
        lengths == [i \in 1..Len(docs) |-> Len(docs[i].tokens)]
        terms == UNION {Range(docs[i].tokens) : i \in 1..Len(docs)}
        df == [t \in terms |->
                  Cardinality({i \in 1..Len(docs) : t \in Range(docs[i].tokens)})]
    IN  [documents |-> docs,
         doc_lengths |-> lengths,
         avgdl |-> IF Len(lengths) > 0
                   THEN [num |-> SumSeq(lengths, 1) \div Len(lengths), den |-> 1]
                   ELSE [num |-> 0, den |-> 1],
         idf |-> [t \in terms |-> Idf(Len(docs), df[t])],
         doc_freqs |-> df,
         indexed |-> TRUE]

\* BM25Search.index_documents; avgdl is the rational num/den, idf and
\* doc_freqs are functions on the set of indexed terms
IndexDocuments(documents) ==
    LET docs == [i \in 1..Len(documents) |->
                    [id |-> documents[i].id,
                     candidate_id |-> documents[i].candidate_id,
                     content |-> documents[i].content,
                     tokens |-> Tokenize(documents[i].content)]]
        lengths == [i \in 1..Len(docs) |-> Len(docs[i].tokens)]
        terms == UNION {Range(docs[i].tokens) : i \in 1..Len(docs)}
        df == [t \in terms |->
                  Cardinality({i \in 1..Len(docs) : t \in Range(docs[i].tokens)})]
        n_docs == Len(docs)
    IN  [documents |-> docs,
         doc_lengths |-> lengths,
         avgdl |-> IF Len(lengths) > 0
                   THEN [num |-> SumSeq(lengths, 1), den |-> Len(lengths)]
                   ELSE [num |-> 0, den |-> 1],
         idf |-> [t \in terms |-> Idf(n_docs, df[t])],
         doc_freqs |-> df,
         indexed |-> TRUE]

\* one term of BM25Search._score_document with k1 = 1.5, b = 0.75:
\*   idf * freq*(k1+1) / (freq + k1*(1 - b + b*doc_len/avgdl))
\* = idf * 20*freq*num / (8*freq*num + 3*num + 9*doc_len*den), avgdl = num/den
TermScore(index, idf, freq, doc_len) ==
    (idf * 20 * freq * index.avgdl.num)
        \div (8 * freq * index.avgdl.num + 3 * index.avgdl.num
              + 9 * doc_len * index.avgdl.den)

RECURSIVE ScoreDocument(_, _, _, _)
ScoreDocument(index, doc_idx, query_tokens, j) ==
    IF j > Len(query_tokens) THEN 0
    ELSE LET token == query_tokens[j]
             freq == Count(index.documents[doc_idx].tokens, token)
             rest == ScoreDocument(index, doc_idx, query_tokens, j + 1)
         IN  IF token \notin DOMAIN index.idf \/ freq = 0
             THEN rest
             ELSE TermScore(index, index.idf[token], freq,
                            index.doc_lengths[doc_idx]) + rest

Take(s, n) == SubSeq(s, 1, Min2(n, Len(s)))

\* scores.sort(key=lambda x: x[2], reverse=True)
SortByScore(s) ==
    LET perm == SortPermDesc([i \in 1..Len(s) |-> s[i].score])
    IN  [i \in 1..Len(s) |-> s[perm[i]]]

\* a search that leaves out the documents with score 0
BM25SearchMatching(index, query, top_k) ==
    IF ~index.indexed THEN <<>>
    ELSE LET query_tokens == Tokenize(query)
             scored == SortByScore([i \in 1..Len(index.documents) |->
                        [doc_id |-> index.documents[i].id,
                         candidate_id |-> index.documents[i].candidate_id,
                         score |-> ScoreDocument(index, i, query_tokens, 1)]])
         IN  IF query_tokens = <<>> THEN <<>>
             ELSE Take(SubSeq(scored, 1, Cardinality({i \in 1..Len(scored) : scored[i].score > 0})),
                       top_k)

\* BM25Search.search
BM25SearchOne(index, query, top_k) ==
    IF ~index.indexed THEN <<>>
    ELSE LET query_tokens == Tokenize(query)
         IN  IF query_tokens = <<>> THEN <<>>
             ELSE Take(SortByScore([i \in 1..Len(index.documents) |->
                        [doc_id |-> index.documents[i].id,
                         candidate_id |-> index.documents[i].candidate_id,
                         score |-> ScoreDocument(index, i, query_tokens, 1)]]),
                       top_k)

\* a combination that adds up the scores of the variants
RECURSIVE KeepSum(_, _, _)
KeepSum(combined, results, i) ==
    IF i > Len(results) THEN combined
    ELSE LET r == results[i]
             pos == IndexOf(combined, r.doc_id, 1)
         IN  IF pos = 0 THEN KeepSum(Append(combined, r), results, i + 1)
             ELSE KeepSum([combined EXCEPT ![pos].score = @ + r.score], results, i + 1)

\* the "for doc_id, cand_id, score in results" loop of search_with_expansion
RECURSIVE KeepMax(_, _, _)
KeepMax(combined, results, i) ==
    IF i > Len(results) THEN combined
    ELSE LET r == results[i]
             pos == IndexOf(combined, r.doc_id, 1)
         IN  IF pos = 0 THEN KeepMax(Append(combined, r), results, i + 1)
             ELSE IF r.score > combined[pos].score
                  THEN KeepMax([combined EXCEPT ![pos] = r], results, i + 1)
                  ELSE KeepMax(combined, results, i + 1)

RECURSIVE CombineQueries(_, _, _, _, _)
CombineQueries(index, combined, queries, top_k, q) ==
    IF q > Len(queries) THEN combined
    ELSE CombineQueries(index,
                        KeepMax(combined, BM25SearchOne(index, queries[q], top_k * 2), 1),
                        queries, top_k, q + 1)

\* BM25Search.search_with_expansion
SearchWithExpansion(index, queries, top_k) ==
    Take(SortByScore(CombineQueries(index, <<>>, queries, top_k, 1)), top_k)

----------------------------------------------------------------------------
(* The persisted corpus (external collaborator): chunks and their owners   *)

NoneStr == "None"        \* Optional[str] that is None
NoneYears == -1          \* Optional[float] that is None (the field is >= 0)
NoText == <<>>           \* keyword_query that is None

\* years of experience are counted in hundredths of a year
CandidateProfile(c) ==
    CASE c = "c1" -> [location |-> "Hanoi", years |-> 500, skills |-> {"python"}]
      [] c = "c2" -> [location |-> "Saigon", years |-> 100, skills |-> {"java"}]

AllChunks ==
    << [id |-> "d1", candidate_id |-> "c1", section |-> "Experience",
        content |-> <<"Python", "Developer">>],
       [id |-> "d2", candidate_id |-> "c1", section |-> "Skills",
        content |-> <<"Python", "C++">>],
       [id |-> "d3", candidate_id |-> "c2", section |-> "Experience",
        content |-> <<"Java", "Engineer">>] >>

----------------------------------------------------------------------------
(* Semantic search provider: VectorSearch.search_with_expanded_queries     *)

\* similarity of a chunk to one query variant, in thousandths
Similarity(query, chunk) ==
    LET q == Range(Tokenize(query))
        d == Range(Tokenize(chunk.content))
    IN  IF q \cap d = {} THEN 0
        ELSE 400 + 100 * Cardinality(q \cap d) + Len(chunk.content)

RECURSIVE BestSimilarity(_, _, _)
BestSimilarity(queries, chunk, i) ==
    IF i > Len(queries) THEN 0
    ELSE Max2(Similarity(queries[i], chunk), BestSimilarity(queries, chunk, i + 1))

PassesFilters(c, filters) ==
    LET p == CandidateProfile(c)
    IN  /\ filters.location # NoneStr => p.location = filters.location
        /\ filters.min_experience_years # NoneYears
              => p.years >= filters.min_experience_years
        /\ Range(filters.required_skills) \subseteq p.skills

SortBySimilarity(s) ==
    LET perm == SortPermDesc([i \in 1..Len(s) |-> s[i].similarity])
    IN  [i \in 1..Len(s) |-> s[perm[i]]]

VectorMatches(chunk) == chunk.similarity > 0

SearchWithExpandedQueries(database, queries, top_k, filters) ==
    LET scored == [i \in 1..Len(database) |->
                      [chunk_id |-> database[i].id,
                       candidate_id |-> database[i].candidate_id,
                       section |-> database[i].section,
                       similarity |->
                           IF PassesFilters(database[i].candidate_id, filters)
                           THEN BestSimilarity(queries, database[i], 1)
                           ELSE 0]]
    IN  Take(SortBySimilarity(SelectSeq(scored, VectorMatches)), top_k)

----------------------------------------------------------------------------
(* query_expansion.py *)

LowerWord(w) ==
    CASE w = "Python" -> "python"
      [] w = "Developer" -> "developer"
      [] w = "Engineer" -> "engineer"
      [] w = "Programmer" -> "programmer"
      [] w = "Java" -> "java"
      [] w = "Golang" -> "golang"
      [] w = "Lap" -> "lap"
      [] w = "Trinh" -> "trinh"
      [] w = "Vien" -> "vien"
      [] w = "Experience" -> "experience"
      [] w = "Skills" -> "skills"
      [] w = "SKILLS" -> "skills"
      [] w = "Education" -> "education"
      [] OTHER -> w

TitleWord(w) ==
    CASE w = "python" -> "Python"
      [] w = "developer" -> "Developer"
      [] w = "engineer" -> "Engineer"
      [] w = "programmer" -> "Programmer"
      [] w = "java" -> "Java"
      [] w = "golang" -> "Golang"
      [] w = "lap" -> "Lap"
      [] w = "trinh" -> "Trinh"
      [] w = "vien" -> "Vien"
      [] OTHER -> w

LowerText(text) == [i \in 1..Len(text) |-> LowerWord(text[i])]

TitleText(text) == [i \in 1..Len(text) |-> TitleWord(text[i])]

\* str.replace(key, exp), on words
RECURSIVE ReplaceWord(_, _, _, _)
ReplaceWord(text, key, exp, i) ==
    IF i > Len(text) THEN <<>>
    ELSE (IF text[i] = key THEN exp ELSE <<text[i]>>) \o ReplaceWord(text, key, exp, i + 1)

TitleMappings ==
    << [key |-> "developer",
        exps |-> << <<"engineer">>, <<"programmer">>, <<"lap", "trinh", "vien">> >>],
       [key |-> "engineer",
        exps |-> << <<"developer">>, <<"specialist">>, <<"ky", "su">> >>] >>

VnMappings ==
    << [en |-> "developer", vn |-> <<"lap", "trinh", "vien">>],
       [en |-> "engineer", vn |-> <<"ky", "su">>] >>

RECURSIVE TitleExpansions(_, _, _)
TitleExpansions(query_lower, m, e) ==
    IF m > Len(TitleMappings) THEN <<>>
    ELSE IF TitleMappings[m].key \notin Range(query_lower)
              \/ e > Len(TitleMappings[m].exps)
         THEN TitleExpansions(query_lower, m + 1, 1)
         ELSE <<TitleText(ReplaceWord(query_lower, TitleMappings[m].key,
                                     TitleMappings[m].exps[e], 1))>>
              \o TitleExpansions(query_lower, m, e + 1)

RECURSIVE VnQuery(_, _)
VnQuery(vn_query, m) ==
    IF m > Len(VnMappings) THEN vn_query
    ELSE VnQuery(ReplaceWord(LowerText(vn_query), VnMappings[m].en,
                             VnMappings[m].vn, 1), m + 1)

\* QueryExpander._fallback_expansion
FallbackExpansion(query) ==
    LET vn_query == VnQuery(query, 1)
    IN  TitleExpansions(LowerText(query), 1, 1)
        \o (IF LowerText(vn_query) # LowerText(query)
            THEN <<TitleText(vn_query)>> ELSE <<>>)

\* what the LLM answers for a query (external)
LLMExpansions(query) ==
    IF LowerText(query) = <<"python", "developer">>
    THEN << <<"Python", "Programmer">>, <<"python", "developer">> >>
    ELSE <<>>

\* "Remove duplicates while preserving order" of expand_query
RECURSIVE Unique(_, _, _)
Unique(result, seen, i) ==
    IF i > Len(result) THEN <<>>
    ELSE IF LowerText(result[i]) \in seen THEN Unique(result, seen, i + 1)
         ELSE <<result[i]>> \o Unique(result, seen \cup {LowerText(result[i])}, i + 1)

\* QueryExpander.expand_query; llm is "no_client", "raises" or "ok"
ExpandQuery(query, max_expansions, llm) ==
    LET result == <<query>> \o
                  (IF llm = "ok" THEN Take(LLMExpansions(query), max_expansions)
                   ELSE FallbackExpansion(query))
    IN  Take(Unique(result, {}, 1), max_expansions + 1)

----------------------------------------------------------------------------
(* utils/cache.py: RedisCache over a key-value store with expiry.          *)
(* The store maps a key to [data, expires_at, computed]; computed is a     *)
(* ghost field, the response that was being returned when the entry was    *)
(* written.  A Maybe value is <<>> (None) or <<v>>.                        *)

\* json.dumps / json.loads of a value
JsonDumps(value) == [json |-> value]

JsonLoads(data) == data.json

\* a key made from the query text alone
GenerateKeyFromQuery(prefix, data) == <<"cache", prefix, JsonDumps(data.query)>>

\* RedisCache._generate_key: "cache:{prefix}:{md5(json.dumps(data, sort_keys=True))}"
GenerateKey(prefix, data) == <<"cache", prefix, JsonDumps(data)>>

\* r.get(key): None for a missing or expired key
RedisGet(store, now_, key) ==
    IF key \in DOMAIN store /\ now_ < store[key].expires_at
    THEN <<store[key].data>> ELSE <<>>

\* r.set(key, data, ex=expire_seconds)
RedisSet(store, now_, key, data, expire_seconds, ghost) ==
    [k \in DOMAIN store \cup {key} |->
        IF k = key
        THEN [data |-> data, expires_at |-> now_ + expire_seconds, computed |-> ghost]
        ELSE store[k]]

\* the try block of RedisCache.get; fault is what goes wrong in the store:
\* "connect" (_get_redis / r.get raises), "decode" (json.loads raises)
TryGet(store, now_, prefix, key_data, fault) ==
    IF fault = "connect" THEN [raised |-> TRUE, value |-> <<>>]
    ELSE LET data == RedisGet(store, now_, GenerateKey(prefix, key_data))
         IN  IF data = <<>> THEN [raised |-> FALSE, value |-> <<>>]
             ELSE IF fault = "decode" THEN [raised |-> TRUE, value |-> <<>>]
             ELSE [raised |-> FALSE, value |-> <<JsonLoads(data[1])>>]

\* RedisCache.get without the except clause
CacheGetUncaught(store, now_, prefix, key_data, fault) ==
    TryGet(store, now_, prefix, key_data, fault)

\* RedisCache.get: "except Exception" logs and falls through to "return None"
CacheGet(store, now_, prefix, key_data, fault) ==
    LET t == TryGet(store, now_, prefix, key_data, fault)
    IN  IF t.raised THEN [raised |-> FALSE, value |-> <<>>] ELSE t

\* the try block of RedisCache.set; fault "connect" (_get_redis / r.set
\* raises), "encode" (json.dumps raises)
TrySet(store, now_, prefix, key_data, value, expire_seconds, fault, ghost) ==
    IF fault \in {"connect", "encode"}
    THEN [raised |-> TRUE, ok |-> FALSE, store |-> store]
    ELSE [raised |-> FALSE, ok |-> TRUE,
          store |-> RedisSet(store, now_, GenerateKey(prefix, key_data),
                             JsonDumps(value), expire_seconds, ghost)]

\* RedisCache.set: "except Exception" logs and falls through to "return False"
CacheSet(store, now_, prefix, key_data, value, expire_seconds, fault, ghost) ==
    LET t == TrySet(store, now_, prefix, key_data, value, expire_seconds, fault, ghost)
    IN  IF t.raised THEN [raised |-> FALSE, ok |-> FALSE, store |-> store] ELSE t

----------------------------------------------------------------------------
(* hybrid.py *)

BM25_FETCH_K == 50
VECTOR_FETCH_K == 50
MAX_QUERY_EXPANSIONS == 5
CACHE_TTL == 300

\* SearchRequest (schemas/search.py)
SearchRequest(query, keyword_query, search_type, expand_query, top_k, min_experience_years, required_skills, location, include_sections) ==
    [query |-> query, keyword_query |-> keyword_query, search_type |-> search_type,
     expand_query |-> expand_query, top_k |-> top_k,
     min_experience_years |-> min_experience_years,
     required_skills |-> required_skills, location |-> location,
     include_sections |-> include_sections]

AsTuples(results) ==
    [i \in 1..Len(results) |-> <<results[i].doc_id, results[i].candidate_id>>]

VectorTuples(vector_raw) ==
    [i \in 1..Len(vector_raw) |-> <<vector_raw[i].chunk_id, vector_raw[i].candidate_id>>]

\* by_candidate keys in insertion order
RECURSIVE CandidateOrder(_, _, _)
CandidateOrder(rrf_results, seen, i) ==
    IF i > Len(rrf_results) THEN <<>>
    ELSE IF rrf_results[i].candidate_id \in seen
         THEN CandidateOrder(rrf_results, seen, i + 1)
         ELSE <<rrf_results[i].candidate_id>>
              \o CandidateOrder(rrf_results, seen \cup {rrf_results[i].candidate_id}, i + 1)

\* max(c.combined_score for c in chunks): the best chunk instead of the sum
RECURSIVE BestScore(_, _)
BestScore(chunks, i) ==
    IF i > Len(chunks) THEN 0 ELSE Max2(chunks[i].combined_score, BestScore(chunks, i + 1))

\* sum(c.combined_score for c in chunks)
RECURSIVE SumScores(_, _)
SumScores(chunks, i) ==
    IF i > Len(chunks) THEN 0 ELSE chunks[i].combined_score + SumScores(chunks, i + 1)

MinOrNone(S) == IF S = {} THEN None ELSE CHOOSE m \in S : \A x \in S : m <= x

\* vector_lookup = {vr.chunk_id: vr for vr in vector_raw}: the last one wins
VectorLookup(vector_raw, chunk_id) ==
    LET hits == {i \in 1..Len(vector_raw) : vector_raw[i].chunk_id = chunk_id}
    IN  IF hits = {} THEN <<>>
        ELSE <<vector_raw[CHOOSE i \in hits : \A j \in hits : j <= i]>>

MatchType(rrf) ==
    IF rrf.keyword_rank # None /\ rrf.semantic_rank = None THEN "keyword"
    ELSE IF rrf.semantic_rank # None /\ rrf.keyword_rank = None THEN "semantic"
    ELSE "hybrid"

ChunkMatch(rrf, vector_raw) ==
    LET vr == VectorLookup(vector_raw, rrf.doc_id)
    IN  [chunk_id |-> rrf.doc_id,
         section |-> IF vr # <<>> THEN vr[1].section ELSE "",
         score |-> rrf.combined_score,
         match_type |-> MatchType(rrf)]

\* HybridSearchEngine._build_search_results
BuildSearchResults(rrf_results, vector_raw) ==
    LET order == CandidateOrder(rrf_results, {}, 1)
        ChunksOf(cand_id) == SelectSeq(rrf_results, LAMBDA r : r.candidate_id = cand_id)
        Result(cand_id) ==
            LET chunks == ChunksOf(cand_id)
            IN  [candidate_id |-> cand_id,
                 combined_score |-> SumScores(chunks, 1),
                 keyword_rank |-> MinOrNone({chunks[i].keyword_rank :
                                     i \in 1..Len(chunks)} \ {None}),
                 semantic_rank |-> MinOrNone({chunks[i].semantic_rank :
                                     i \in 1..Len(chunks)} \ {None}),
                 matched_chunks |-> [i \in 1..Len(chunks) |->
                                        ChunkMatch(chunks[i], vector_raw)]]
    IN  SortDesc([i \in 1..Len(order) |-> Result(order[i])])

\* HybridSearchEngine._hybrid_search; the result is a Maybe that is <<>> when
\* the semantic provider raises
HybridSearchResults(index, database, bm25_queries, vector_queries, filters, vector) ==
    LET bm25_results == SearchWithExpansion(index, bm25_queries, BM25_FETCH_K)
        vector_raw == SearchWithExpandedQueries(database, vector_queries,
                                                VECTOR_FETCH_K, filters)
    IN  IF vector = "raises" THEN <<>>
        ELSE <<BuildSearchResults(Merge(AsTuples(bm25_results), VectorTuples(vector_raw)),
                                  vector_raw)>>

\* HybridSearchEngine._keyword_only_search
KeywordOnlyResults(index, queries, top_k) ==
    LET bm25_results == SearchWithExpansion(index, queries, top_k)
    IN  <<[rank \in 1..Len(bm25_results) |->
            [candidate_id |-> bm25_results[rank].candidate_id,
             combined_score |-> bm25_results[rank].score,
             keyword_rank |-> rank, semantic_rank |-> None,
             matched_chunks |-> <<>>]]>>

\* HybridSearchEngine._semantic_only_search
SemanticOnlyResults(database, queries, top_k, filters, vector) ==
    LET vector_results == SearchWithExpandedQueries(database, queries, top_k, filters)
    IN  IF vector = "raises" THEN <<>>
        ELSE <<[rank \in 1..Len(vector_results) |->
                 [candidate_id |-> vector_results[rank].candidate_id,
                  combined_score |-> vector_results[rank].similarity,
                  keyword_rank |-> None, semantic_rank |-> rank,
                  matched_chunks |->
                      <<[chunk_id |-> vector_results[rank].chunk_id,
                         section |-> vector_results[rank].section,
                         score |-> vector_results[rank].similarity,
                         match_type |-> "semantic"]>>]]>>

\* a filter that narrows the matched chunks and keeps every candidate
ApplyFiltersKeepAll(results, request) ==
    IF request.include_sections = <<>> THEN results
    ELSE LET section_set == {LowerWord(request.include_sections[i]) :
                                i \in 1..Len(request.include_sections)}
             Keep(c) == LowerWord(c.section) \in section_set
         IN  [i \in 1..Len(results) |->
                 [results[i] EXCEPT !.matched_chunks = SelectSeq(@, Keep)]]

\* HybridSearchEngine._apply_filters
ApplyFilters(results, request) ==
    IF request.include_sections = <<>> THEN results
    ELSE LET section_set == {LowerWord(request.include_sections[i]) :
                                i \in 1..Len(request.include_sections)}
             Keep(c) == LowerWord(c.section) \in section_set
             narrowed == [i \in 1..Len(results) |->
                             [results[i] EXCEPT !.matched_chunks = SelectSeq(@, Keep)]]
         IN  SelectSeq(narrowed, LAMBDA r : r.matched_chunks # <<>>)

\* Step 1 of HybridSearchEngine.search: query expansion.  llm says how the
\* expansion provider behaves during this call.
ExpandedSemanticQueries(request, llm) ==
    IF request.expand_query
    THEN ExpandQuery(request.query, MAX_QUERY_EXPANSIONS, llm)
    ELSE <<request.query>>

\* Step 2 of HybridSearchEngine.search: filters and dispatch on the search
\* type.  vector says how the semantic provider behaves during this call;
\* the result is <<>> when the search raises, <<results>> otherwise.
Dispatch(request, index, database, vector, expanded_semantic_queries) ==
    LET bm25_queries ==
            IF request.keyword_query # NoText THEN <<request.keyword_query>>
            ELSE expanded_semantic_queries
        filters == [location |-> request.location,
                    min_experience_years |-> request.min_experience_years,
                    required_skills |-> request.required_skills]
    IN  CASE request.search_type = "hybrid" ->
                HybridSearchResults(index, database, bm25_queries,
                                    expanded_semantic_queries, filters, vector)
          [] request.search_type = "keyword" ->
                KeywordOnlyResults(index, bm25_queries, request.top_k)
          [] OTHER ->
                SemanticOnlyResults(database, expanded_semantic_queries,
                                    request.top_k, filters, vector)

\* Step 3 of HybridSearchEngine.search: post-filter of the dispatched results
PostFilter(request, expanded_semantic_queries, results) ==
    IF results = <<>> THEN [raised |-> TRUE]
    ELSE [raised |-> FALSE,
          expanded_queries |-> expanded_semantic_queries,
          filtered_results |-> ApplyFilters(results[1], request)]

\* Steps 2 and 3 on the expanded queries
RankExpanded(request, index, database, vector, expanded_semantic_queries) ==
    PostFilter(request, expanded_semantic_queries,
               Dispatch(request, index, database, vector, expanded_semantic_queries))

\* Steps 1 to 3 of HybridSearchEngine.search: expansion, dispatch on the
\* search type, post-filter.  env.llm and env.vector say how the two
\* providers behave during this call.
RankingPipeline(request, index, database, env) ==
    RankExpanded(request, index, database, env.vector,
                 ExpandedSemanticQueries(request, env.llm))

NoResponse ==
    [query |-> <<>>, expanded_queries |-> <<>>, search_type |-> "",
     total_results |-> 0, results |-> <<>>]

\* "if cached_results:" of HybridSearchEngine.search
Truthy(cached_results) == cached_results.value # <<>> /\ cached_results.value[1] # <<>>

\* The result of HybridSearchEngine.search records what the call returned
\* (outcome, response), the store it leaves, and how it got there: hit, ranked
\* (the ranking pipeline ran), set_ok (what cache.set returned).

\* Step 4 of HybridSearchEngine.search and its return: p is what the ranking
\* pipeline gave
CacheAndRespond(request, store, now_, env, p) ==
    IF p.raised
    THEN [outcome |-> "raised", response |-> NoResponse, store |-> store,
          hit |-> FALSE, ranked |-> TRUE, set_ok |-> FALSE]
    ELSE LET response ==
                 [query |-> request.query,
                  expanded_queries |-> p.expanded_queries,
                  search_type |-> request.search_type,
                  total_results |-> Len(p.filtered_results),
                  results |-> Take(p.filtered_results, request.top_k)]
             saved == CacheSet(store, now_, "search", request,
                               Take(p.filtered_results, request.top_k),
                               CACHE_TTL, env.set_fault, response)
         IN  IF saved.raised
             THEN [outcome |-> "raised", response |-> NoResponse,
                   store |-> store, hit |-> FALSE, ranked |-> TRUE,
                   set_ok |-> FALSE]
             ELSE [outcome |-> "returned", response |-> response,
                   store |-> saved.store, hit |-> FALSE, ranked |-> TRUE,
                   set_ok |-> saved.ok]

\* HybridSearchEngine.search after the cache lookup gave cached_results
ServeOrRank(request, index, database, store, now_, env, cached_results) ==
    IF cached_results.raised
    THEN [outcome |-> "raised", response |-> NoResponse, store |-> store,
          hit |-> FALSE, ranked |-> FALSE, set_ok |-> FALSE]
    ELSE IF Truthy(cached_results)
    THEN [outcome |-> "returned",
          response |-> [query |-> request.query,
                        expanded_queries |-> <<>>,
                        search_type |-> request.search_type,
                        total_results |-> Len(cached_results.value[1]),
                        results |-> cached_results.value[1]],
          store |-> store, hit |-> TRUE, ranked |-> FALSE, set_ok |-> FALSE]
    ELSE CacheAndRespond(request, store, now_, env,
                         RankingPipeline(request, index, database, env))

\* HybridSearchEngine.search; the cache key is made from the whole request
Search(request, index, database, store, now_, env) ==
    ServeOrRank(request, index, database, store, now_, env,
                CacheGet(store, now_, "search", request, env.get_fault))

----------------------------------------------------------------------------
(* rag_chain.py *)

NoteLayer1 == ""
NoteLayer2Missing == ""
NoteLayer2 == "no 100% match (Layer 1); closest candidates, Location/Experience relaxed"
NoteLayer3 == "no candidate passes the filters; most related profiles (Semantic Match)"
NoteExhausted == "no data found at all, not even by semantic lookup"

LAYER3_TOP_K == 3

\* RAGChain._process_search_results
ProcessSearchResults(response) ==
    [candidates |-> [i \in 1..Len(response.results) |->
                        [candidate_id |-> response.results[i].candidate_id,
                         match_score |-> response.results[i].combined_score]],
     retrieved_chunks |->
         LET RECURSIVE Chunks(_)
             Chunks(i) == IF i > Len(response.results) THEN <<>>
                          ELSE Take(response.results[i].matched_chunks, 3) \o Chunks(i + 1)
         IN  Chunks(1)]

\* relaxed_request of _search_with_fallback; x * 0.7 on hundredths of a year
RelaxedRequest(search_request) ==
    SearchRequest(search_request.query, NoText, "hybrid", TRUE, search_request.top_k,
                  IF search_request.min_experience_years # NoneYears
                     /\ search_request.min_experience_years # 0
                  THEN Max2(0, (search_request.min_experience_years * 7) \div 10)
                  ELSE NoneYears,
                  search_request.required_skills, NoneStr, <<>>)

\* fallback_request of _search_with_fallback
FallbackRequest(search_request) ==
    SearchRequest(search_request.query, NoText, "semantic", TRUE, LAYER3_TOP_K,
                  NoneYears, <<>>, NoneStr, <<>>)

----------------------------------------------------------------------------
(* Environments and inputs *)

PythonDev == <<"Python", "Developer">>
Golang == <<"Golang">>

GetFaults == {"none", "connect", "decode"}
SetFaults == {"none", "connect", "encode"}
LLMModes == {"ok", "raises", "no_client"}
VectorModes == {"ok", "raises"}

FaultCount(e) ==
    (IF e.get_fault # "none" THEN 1 ELSE 0) + (IF e.set_fault # "none" THEN 1 ELSE 0)
    + (IF e.llm # "ok" THEN 1 ELSE 0) + (IF e.vector # "ok" THEN 1 ELSE 0)

\* how the store and the providers behave during one search call: nothing
\* goes wrong, one thing goes wrong, or the store fails in get and in set
\* (down for the whole call; or an entry that does not decode and a result
\* that does not encode)
Envs ==
    {e \in [get_fault : GetFaults, set_fault : SetFaults,
            llm : LLMModes, vector : VectorModes] :
        \/ FaultCount(e) <= 1
        \/ /\ FaultCount(e) = 2
           /\ <<e.get_fault, e.set_fault>> \in {<<"connect", "connect">>,
                                                <<"decode", "encode">>}}

\* requests sent to POST /search
ApiRequests ==
    { SearchRequest(PythonDev, NoText, "hybrid", TRUE, 1, NoneYears, <<>>, NoneStr, <<>>),
      SearchRequest(PythonDev, NoText, "keyword", FALSE, 1, NoneYears, <<>>, NoneStr, <<>>),
      SearchRequest(Golang, NoText, "semantic", TRUE, 1, NoneYears, <<>>, NoneStr, <<>>) }

CHAT_MAX_CANDIDATES == 5

\* requests RAGChain.chat builds from the transformed query
ChatRequests ==
    {SearchRequest(q, kw, "hybrid", TRUE, CHAT_MAX_CANDIDATES, y, sk, loc, <<>>) :
        q \in {PythonDev, Golang}, kw \in {NoText, <<"Python">>},
        y \in {NoneYears, 600}, sk \in {<<>>, <<"python">>, <<"rust">>},
        loc \in {NoneStr, "Hanoi", "Mars"}}

\* requests RAGChain.chat builds where CHAT_MAX_CANDIDATES is set to 2 in the
\* environment of the deployment
SmallChatRequests ==
    {SearchRequest(q, NoText, "hybrid", TRUE, 2, NoneYears, <<>>, NoneStr, <<>>) :
        q \in {PythonDev, Golang}}

\* BM25Search.load_from_database
LoadFromDatabase(index, database) ==
    IF database = <<>> THEN index ELSE IndexDocuments(database)

\* corpus and index the engine can be in when searches arrive: nothing
\* ingested; candidates saved but the index of this process not built; index
\* built from the saved chunks
EngineStates ==
    { [db |-> <<>>, bm25 |-> NewIndex],
      [db |-> AllChunks, bm25 |-> NewIndex],
      [db |-> AllChunks, bm25 |-> LoadFromDatabase(NewIndex, AllChunks)] }

NoCall ==
    [request |-> SearchRequest(<<>>, NoText, "", FALSE, 0, NoneYears, <<>>, NoneStr, <<>>),
     env |-> [get_fault |-> "none", set_fault |-> "none", llm |-> "ok", vector |-> "ok"],
     time |-> -1, entry_live |-> FALSE, cached_from |-> NoResponse, stored |-> FALSE,
     outcome |-> "none", response |-> NoResponse,
     hit |-> FALSE, ranked |-> FALSE, set_ok |-> FALSE,
     fresh |-> [raised |-> TRUE]]

\* the record of one search call
CallRecord(request, env, r) ==
    [request |-> request, env |-> env, time |-> now,
     entry_live |-> RedisGet(cache, now, GenerateKey("search", request)) # <<>>,
     cached_from |-> IF RedisGet(cache, now, GenerateKey("search", request)) # <<>>
                     THEN cache[GenerateKey("search", request)].computed
                     ELSE NoResponse,
     stored |-> r.store # cache,
     outcome |-> r.outcome, response |-> r.response,
     hit |-> r.hit, ranked |-> r.ranked, set_ok |-> r.set_ok,
     fresh |-> RankingPipeline(request, bm25, db, env)]

----------------------------------------------------------------------------
(* Specification of the fusion engine: the inputs are drawn by Init         *)

RankedLists == SeqsUpTo(DocIds \X CandIds, MaxLen)

\* vector_raw as the provider would return it for a ranked list
AsVectorRaw(list) ==
    [i \in 1..Len(list) |->
        [chunk_id |-> list[i][1], candidate_id |-> list[i][2],
         section |-> "Experience", similarity |-> 1000 - i]]

\* the weights the merger is called with, as integers (only their ratio matters)
WeightPairs == {<<1, 1>>, <<2, 1>>}

NoWeighted == [weights |-> <<>>, out |-> <<>>]

\* no operation on the index has been recorded
NoOp ==
    [op |-> "none", index |-> NewIndex, docs |-> <<>>, queries |-> <<>>, top_k |-> 0,
     outcome |-> "none", results |-> <<>>]

IndexIdle == ixPc = "idle" /\ ixLast = NoOp

DeterminismIdle == detFixed = [request |-> NoCall.request, llm |-> "ok", vector |-> "ok"] /\ detRuns = {}

NoCallArg == [request |-> NoCall.request, env |-> NoCall.env, expanded |-> <<>>]

CallIdle == callPc = "idle" /\ callArg = NoCallArg

NoHistory == [session_id |-> "", limit |-> 0, time |-> -1, added |-> <<>>, messages |-> <<>>]

MemoryIdle == memStore = <<>> /\ memLog = <<>> /\ memLast = NoHistory

NotMerged == [done |-> FALSE, merged |-> <<>>]

IntervalsIdle == ivIn = <<>> /\ ivToday = 0 /\ ivOut = NotMerged

WritersIdle == awPc = <<>> /\ awDocs = <<>>

EngineIdle ==
    /\ db = <<>> /\ bm25 = NewIndex /\ cache = <<>> /\ now = 0 /\ lastCall = NoCall

FallbackIdle ==
    /\ fbPc = "idle" /\ fbRequest = NoCall.request /\ fbTrace = <<>>
    /\ fbResult = [candidates |-> <<>>, retrieved_chunks |-> <<>>, search_note |-> ""]

RRFIdle ==
    /\ rrfA = <<>> /\ rrfB = <<>> /\ rrfOut = <<>> /\ rrfCand = <<>>
    /\ rrfHybrid = <<>> /\ rrfDone = {} /\ rrfWeighted = NoWeighted

InitRRF ==
    /\ rrfA \in RankedLists
    /\ rrfB \in RankedLists
    /\ rrfOut = <<>> /\ rrfCand = <<>> /\ rrfHybrid = <<>> /\ rrfDone = {}
    /\ rrfWeighted = NoWeighted
    /\ EngineIdle
    /\ FallbackIdle
    /\ IndexIdle
    /\ DeterminismIdle
    /\ CallIdle
    /\ MemoryIdle /\ IntervalsIdle /\ WritersIdle

DoMerge ==
    /\ "merge" \notin rrfDone
    /\ rrfOut' = Merge(rrfA, rrfB)
    /\ rrfDone' = rrfDone \cup {"merge"}
    /\ UNCHANGED <<rrfA, rrfB, rrfCand, rrfHybrid, rrfWeighted, engineVars, fbVars, ixVars, detVars, callVars, memVars, ivVars, awVars>>

DoMergeCandidateLevel ==
    /\ "candidate" \notin rrfDone
    /\ rrfCand' = MergeCandidateLevel(rrfA, rrfB)
    /\ rrfDone' = rrfDone \cup {"candidate"}
    /\ UNCHANGED <<rrfA, rrfB, rrfOut, rrfHybrid, rrfWeighted, engineVars, fbVars, ixVars, detVars, callVars, memVars, ivVars, awVars>>

DoBuildSearchResults ==
    /\ "hybrid" \notin rrfDone
    /\ rrfHybrid' = BuildSearchResults(Merge(rrfA, rrfB), AsVectorRaw(rrfB))
    /\ rrfDone' = rrfDone \cup {"hybrid"}
    /\ UNCHANGED <<rrfA, rrfB, rrfOut, rrfCand, rrfWeighted, engineVars, fbVars, ixVars, detVars, callVars, memVars, ivVars, awVars>>

DoMergeWithWeights(weights) ==
    /\ rrfWeighted = NoWeighted
    /\ rrfWeighted' = [weights |-> weights,
                       out |-> MergeWithWeights(<<<<rrfA, weights[1]>>, <<rrfB, weights[2]>>>>)]
    /\ UNCHANGED <<rrfA, rrfB, rrfOut, rrfCand, rrfHybrid, rrfDone, engineVars, fbVars, ixVars, detVars, callVars, memVars, ivVars, awVars>>

NextRRF == DoMerge \/ DoMergeCandidateLevel \/ DoBuildSearchResults

SpecRRF == InitRRF /\ [][NextRRF]_vars

\* the three merging operations of RRFMerger on one pair of input lists
NextRRFOrder ==
    \/ DoMerge
    \/ DoMergeCandidateLevel
    \/ \E weights \in WeightPairs : DoMergeWithWeights(weights)

\* the lists come from searches, which rank a document once
InitRRFOrder == InitRRF /\ NoDup(rrfA) /\ NoDup(rrfB)

SpecRRFOrder == InitRRFOrder /\ [][NextRRFOrder]_vars

----------------------------------------------------------------------------
(* Specification of the search endpoint with its cache                      *)

InitSearch ==
    /\ RRFIdle
    /\ \E e \in EngineStates : db = e.db /\ bm25 = e.bm25
    /\ cache = <<>> /\ now = 0 /\ lastCall = NoCall
    /\ FallbackIdle
    /\ IndexIdle
    /\ DeterminismIdle
    /\ CallIdle
    /\ MemoryIdle /\ IntervalsIdle /\ WritersIdle

\* POST /search: one call of HybridSearchEngine.search
ApiSearch(request, env) ==
    \E r \in {Search(request, bm25, db, cache, now, env)} :
        /\ cache' = r.store
        /\ lastCall' = CallRecord(request, env, r)
        /\ UNCHANGED <<db, bm25, now, rrfVars, fbVars, ixVars, detVars, callVars, memVars, ivVars, awVars>>

\* time passes; Redis drops the keys whose expiry has passed
Tick ==
    /\ now < MaxTicks * TickSeconds
    /\ now' = now + TickSeconds
    /\ cache' = [k \in {k \in DOMAIN cache : now' < cache[k].expires_at} |-> cache[k]]
    /\ UNCHANGED <<db, bm25, lastCall, rrfVars, fbVars, ixVars, detVars, callVars, memVars, ivVars, awVars>>

NextSearch ==
    \/ \E request \in ApiRequests, env \in Envs : ApiSearch(request, env)
    \/ Tick

SpecSearch == InitSearch /\ [][NextSearch]_vars

----------------------------------------------------------------------------
(* Specification of the chat search with its three-layer fallback           *)

InitFallback ==
    /\ RRFIdle
    /\ \E e \in EngineStates : db = e.db /\ bm25 = e.bm25
    /\ cache = <<>> /\ now = 0 /\ lastCall = NoCall
    /\ FallbackIdle
    /\ IndexIdle
    /\ DeterminismIdle
    /\ CallIdle
    /\ MemoryIdle /\ IntervalsIdle /\ WritersIdle

\* RAGChain.chat reaches Step 4 and calls _search_with_fallback
ChatSearch(request) ==
    /\ fbPc = "idle"
    /\ fbPc' = "Layer1"
    /\ fbRequest' = request
    /\ UNCHANGED <<fbTrace, fbResult, engineVars, rrfVars, ixVars, detVars, callVars, memVars, ivVars, awVars>>

\* a fallback that goes on to the next layer whatever the result
LayerOutcomeNoStop(r, note, next_pc) ==
    IF r.outcome = "raised" THEN [pc |-> "raised", result |-> <<>>]
    ELSE IF next_pc = "done"
    THEN [pc |-> "done",
          result |-> <<[candidates |-> ProcessSearchResults(r.response).candidates,
                        retrieved_chunks |->
                            ProcessSearchResults(r.response).retrieved_chunks,
                        search_note |-> note]>>]
    ELSE [pc |-> next_pc, result |-> <<>>]

\* a fallback that raises when the last layer is empty
LayerOutcomeExhaustedRaises(r, note, next_pc) ==
    IF r.outcome = "raised" THEN [pc |-> "raised", result |-> <<>>]
    ELSE IF r.response.results # <<>>
    THEN [pc |-> "done",
          result |-> <<[candidates |-> ProcessSearchResults(r.response).candidates,
                        retrieved_chunks |->
                            ProcessSearchResults(r.response).retrieved_chunks,
                        search_note |-> note]>>]
    ELSE IF next_pc = "done" THEN [pc |-> "raised", result |-> <<>>]
    ELSE [pc |-> next_pc, result |-> <<>>]

\* what _search_with_fallback does with the outcome r of a layer's search
\* call: where it goes (pc) and what it returns (result, <<>> when it does
\* not return); next_pc is where an empty result leads
LayerOutcome(r, note, next_pc) ==
    IF r.outcome = "raised" THEN [pc |-> "raised", result |-> <<>>]
    ELSE IF r.response.results # <<>>
    THEN [pc |-> "done",
          result |-> <<[candidates |-> ProcessSearchResults(r.response).candidates,
                        retrieved_chunks |->
                            ProcessSearchResults(r.response).retrieved_chunks,
                        search_note |-> note]>>]
    ELSE IF next_pc = "done"
    THEN [pc |-> "done",
          result |-> <<[candidates |-> <<>>, retrieved_chunks |-> <<>>,
                        search_note |-> NoteExhausted]>>]
    ELSE [pc |-> next_pc, result |-> <<>>]

\* one layer of _search_with_fallback: the search call and the test of its
\* result
Layer(layer, request, env, note, next_pc) ==
    /\ fbPc = layer
    /\ \E r \in {Search(request, bm25, db, cache, now, env)} :
        \E o \in {LayerOutcome(r, note, next_pc)} :
            /\ cache' = r.store
            /\ fbTrace' = Append(fbTrace, [layer |-> layer, request |-> request,
                                           faults |-> FaultCount(env),
                                           outcome |-> r.outcome,
                                           results |-> r.response.results])
            /\ fbPc' = o.pc
            /\ fbResult' = IF o.result = <<>> THEN fbResult ELSE o.result[1]
    /\ UNCHANGED <<fbRequest, db, bm25, now, lastCall, rrfVars, ixVars, detVars, callVars, memVars, ivVars, awVars>>

Layer1(env) == Layer("Layer1", fbRequest, env, NoteLayer1, "Layer2")

Layer2(env) == Layer("Layer2", RelaxedRequest(fbRequest), env, NoteLayer2, "Layer3")

Layer3(env) == Layer("Layer3", FallbackRequest(fbRequest), env, NoteLayer3, "done")

NextFallback ==
    \/ \E request \in ChatRequests \cup SmallChatRequests : ChatSearch(request)
    \/ \E env \in Envs : Layer1(env)
    \/ \E env \in Envs : Layer2(env)
    \/ \E env \in Envs : Layer3(env)

SpecFallback == InitFallback /\ [][NextFallback]_vars

----------------------------------------------------------------------------
(* Specification of searches restricted to sections of the CV               *)

\* requests to POST /search with and without include_sections
SectionRequests ==
    {SearchRequest(PythonDev, NoText, "hybrid", TRUE, 2, NoneYears, <<>>, NoneStr, sections) :
        sections \in {<<>>, <<"SKILLS">>, <<"experience">>, <<"Education">>}}
    \cup {SearchRequest(PythonDev, NoText, "semantic", TRUE, 2, NoneYears, <<>>, NoneStr, <<"Education", "skills">>),
          SearchRequest(PythonDev, NoText, "keyword", FALSE, 2, NoneYears, <<>>, NoneStr, <<"experience">>)}

\* the store and the expansion provider work
WorkingStoreEnvs ==
    {e \in Envs : e.get_fault = "none" /\ e.set_fault = "none" /\ e.llm = "ok"}

NextSections ==
    \E request \in SectionRequests, env \in WorkingStoreEnvs : ApiSearch(request, env)

SpecSections == InitSearch /\ [][NextSections]_vars

----------------------------------------------------------------------------
(* Repeated invocations of search with one request and fixed providers,     *)
(* between other requests, cache failures and the passing of time           *)

InitDeterminism ==
    /\ RRFIdle
    /\ \E e \in EngineStates : db = e.db /\ bm25 = e.bm25
    /\ cache = <<>> /\ now = 0 /\ lastCall = NoCall
    /\ FallbackIdle
    /\ IndexIdle
    /\ detFixed \in [request : ApiRequests, llm : LLMModes, vector : VectorModes]
    /\ detRuns = {}
    /\ CallIdle
    /\ MemoryIdle /\ IntervalsIdle /\ WritersIdle

\* the cache behaves as get_fault and set_fault say, the providers as fixed
FixedEnv(get_fault, set_fault) ==
    [get_fault |-> get_fault, set_fault |-> set_fault,
     llm |-> detFixed.llm, vector |-> detFixed.vector]

\* one more invocation of HybridSearchEngine.search with the fixed request
Invoke(get_fault, set_fault) ==
    \E r \in {Search(detFixed.request, bm25, db, cache, now, FixedEnv(get_fault, set_fault))} :
        /\ cache' = r.store
        /\ detRuns' = detRuns \cup {[outcome |-> r.outcome, results |-> r.response.results,
                                      hit |-> r.hit]}
        /\ UNCHANGED <<detFixed, db, bm25, now, lastCall, rrfVars, fbVars, ixVars, callVars, memVars, ivVars, awVars>>

\* HybridSearchEngine.search serves another request
OtherRequest(request) ==
    /\ request # detFixed.request
    /\ \E r \in {Search(request, bm25, db, cache, now, FixedEnv("none", "none"))} :
           cache' = r.store
    /\ UNCHANGED <<detVars, db, bm25, now, lastCall, rrfVars, fbVars, ixVars, callVars, memVars, ivVars, awVars>>

NextDeterminism ==
    \/ \E get_fault \in {"none", "connect"}, set_fault \in {"none", "connect"} :
           Invoke(get_fault, set_fault)
    \/ \E request \in ApiRequests : OtherRequest(request)
    \/ Tick

SpecDeterminism == InitDeterminism /\ [][NextDeterminism]_vars

----------------------------------------------------------------------------
(* One search call followed up to its await of the semantic provider        *)

\* the semantic provider may also never respond; the cache works
ProviderEnvs ==
    [get_fault : {"none"}, set_fault : {"none"}, llm : LLMModes,
     vector : VectorModes \cup {"hangs"}]

InitCalls ==
    /\ RRFIdle
    /\ \E e \in EngineStates : db = e.db /\ bm25 = e.bm25
    /\ cache = <<>> /\ now = 0 /\ lastCall = NoCall
    /\ FallbackIdle
    /\ IndexIdle
    /\ DeterminismIdle
    /\ CallIdle
    /\ MemoryIdle /\ IntervalsIdle /\ WritersIdle

\* search runs to its cache hit, to the end of a keyword search, or to the
\* "await self.vector.search_with_expanded_queries(...)" of its search type
StartSearch(request, env) ==
    /\ callPc = "idle"
    /\ \E cached_results \in {CacheGet(cache, now, "search", request, env.get_fault)} :
         IF Truthy(cached_results) \/ request.search_type = "keyword"
         THEN \E r \in {ServeOrRank(request, bm25, db, cache, now, env, cached_results)} :
                 /\ cache' = r.store
                 /\ lastCall' = CallRecord(request, env, r)
                 /\ callPc' = "done"
                 /\ callArg' = [NoCallArg EXCEPT !.request = request, !.env = env]
         ELSE /\ callPc' = "awaiting_vector"
              /\ callArg' = [request |-> request, env |-> env,
                             expanded |-> ExpandedSemanticQueries(request, env.llm)]
              /\ UNCHANGED <<cache, lastCall>>
    /\ UNCHANGED <<db, bm25, now, rrfVars, fbVars, ixVars, detVars, memVars, ivVars, awVars>>

\* the awaited provider call completes (returns or raises); nothing else
\* ends the await
VectorResponds ==
    /\ callPc = "awaiting_vector"
    /\ callArg.env.vector # "hangs"
    /\ callPc' = "resumed"
    /\ UNCHANGED <<callArg, engineVars, rrfVars, fbVars, ixVars, detVars, memVars, ivVars, awVars>>

\* search goes on from the completed await to its return
FinishSearch ==
    /\ callPc = "resumed"
    /\ \E r \in {CacheAndRespond(callArg.request, cache, now, callArg.env,
                                  RankExpanded(callArg.request, bm25, db, callArg.env.vector,
                                               callArg.expanded))} :
           /\ cache' = r.store
           /\ lastCall' = CallRecord(callArg.request, callArg.env, r)
    /\ callPc' = "done"
    /\ UNCHANGED <<callArg, db, bm25, now, rrfVars, fbVars, ixVars, detVars, memVars, ivVars, awVars>>

\* the caller has the response (or the exception); the next request arrives
NextRequest ==
    /\ callPc = "done"
    /\ callPc' = "idle"
    /\ callArg' = NoCallArg
    /\ UNCHANGED <<engineVars, rrfVars, fbVars, ixVars, detVars, memVars, ivVars, awVars>>

NextCalls ==
    \/ \E request \in ApiRequests, env \in ProviderEnvs : StartSearch(request, env)
    \/ VectorResponds
    \/ FinishSearch
    \/ NextRequest

SpecCalls == InitCalls /\ [][NextCalls]_vars

----------------------------------------------------------------------------
(* The BM25 index under ingestion and search                                *)

\* add_candidate_chunks is taken only while the index stays within MaxIndexed
\* documents
MaxIndexed == 3

\* the raw (doc_id, candidate_id, content) of a stored chunk
RawDocument(chunk) ==
    [id |-> chunk.id, candidate_id |-> chunk.candidate_id, content |-> chunk.content]

\* the lists of raw documents handed to the index in one call
Batches ==
    {[i \in 1..Len(b) |-> RawDocument(AllChunks[b[i]])] :
        b \in {x \in SeqsUpTo(1..Len(AllChunks), MaxLen) :
                  \A i, j \in 1..Len(x) : x[i] = x[j] => i = j}}

\* the chunks of one candidate, as the ingestion worker passes them
CandidateBatches ==
    {b \in Batches : b # <<>> /\ \A i \in 1..Len(b) : b[i].candidate_id = b[1].candidate_id}

\* the queries put to the index
IndexQueries == {<<>>, <<"C++">>, PythonDev, <<"Python">>, <<"Java", "Engineer">>, Golang}

\* the query variants put to the index in one call
VariantLists ==
    { <<>>, <<PythonDev>>, <<PythonDev, <<"Python">>>>, <<<<"Python">>, PythonDev>>,
      <<<<"C++">>, <<"Java", "Engineer">>>>, <<<<"Java", "Engineer">>, <<"Python">>, Golang>> }

\* list(self.bm25.documents) + the BM25Document of every new chunk
CurrentPlusNew(index, chunks) ==
    [i \in 1..Len(index.documents) |-> RawDocument(index.documents[i])] \o chunks

InitIndex ==
    /\ RRFIdle
    /\ EngineIdle
    /\ FallbackIdle
    /\ IndexIdle
    /\ DeterminismIdle
    /\ CallIdle
    /\ MemoryIdle /\ IntervalsIdle /\ WritersIdle

\* HybridSearchEngine.update_bm25_index, i.e. BM25Search.add_documents
AddDocuments(documents) ==
    /\ bm25' = IndexDocuments(documents)
    /\ ixLast' = [NoOp EXCEPT !.op = "add_documents", !.index = bm25, !.docs = documents]
    /\ UNCHANGED <<ixPc, db, cache, now, lastCall, rrfVars, fbVars, detVars, callVars, memVars, ivVars, awVars>>

\* an add_candidate_chunks that also empties the result cache
AddCandidateChunksInvalidating(chunks) ==
    /\ Len(bm25.documents) + Len(chunks) <= MaxIndexed
    /\ bm25' = IndexDocuments(CurrentPlusNew(bm25, chunks))
    /\ cache' = <<>>
    /\ ixLast' = [NoOp EXCEPT !.op = "add_candidate_chunks", !.index = bm25, !.docs = chunks]
    /\ UNCHANGED <<ixPc, db, now, lastCall, rrfVars, fbVars, detVars, callVars, memVars, ivVars, awVars>>

\* HybridSearchEngine.add_candidate_chunks
AddCandidateChunks(chunks) ==
    /\ Len(bm25.documents) + Len(chunks) <= MaxIndexed
    /\ bm25' = IndexDocuments(CurrentPlusNew(bm25, chunks))
    /\ ixLast' = [NoOp EXCEPT !.op = "add_candidate_chunks", !.index = bm25, !.docs = chunks]
    /\ UNCHANGED <<ixPc, db, cache, now, lastCall, rrfVars, fbVars, detVars, callVars, memVars, ivVars, awVars>>

\* BM25Search.index_documents called again with the documents it holds
IndexDocumentsAgain ==
    /\ bm25.indexed
    /\ bm25' = IndexDocuments(CurrentPlusNew(bm25, <<>>))
    /\ ixLast' = [NoOp EXCEPT !.op = "index_documents", !.index = bm25,
                              !.docs = CurrentPlusNew(bm25, <<>>)]
    /\ UNCHANGED <<ixPc, db, cache, now, lastCall, rrfVars, fbVars, detVars, callVars, memVars, ivVars, awVars>>

\* BM25Search.load_from_database; chunks is what session.query(Chunk).all() gives
LoadIndexFromDatabase(chunks) ==
    /\ bm25' = LoadFromDatabase(bm25, chunks)
    /\ ixLast' = [NoOp EXCEPT !.op = "load_from_database", !.index = bm25, !.docs = chunks]
    /\ UNCHANGED <<ixPc, db, cache, now, lastCall, rrfVars, fbVars, detVars, callVars, memVars, ivVars, awVars>>

\* BM25Search.search
IndexSearch(query, top_k) ==
    /\ ixLast' = [NoOp EXCEPT !.op = "search", !.index = bm25, !.queries = <<query>>,
                              !.top_k = top_k, !.outcome = "returned",
                              !.results = BM25SearchOne(bm25, query, top_k)]
    /\ UNCHANGED <<ixPc, engineVars, rrfVars, fbVars, detVars, callVars, memVars, ivVars, awVars>>

\* BM25Search.search_with_expansion
IndexSearchWithExpansion(queries, top_k) ==
    /\ ixLast' = [NoOp EXCEPT !.op = "search_with_expansion", !.index = bm25,
                              !.queries = queries, !.top_k = top_k, !.outcome = "returned",
                              !.results = SearchWithExpansion(bm25, queries, top_k)]
    /\ UNCHANGED <<ixPc, engineVars, rrfVars, fbVars, detVars, callVars, memVars, ivVars, awVars>>

NextIndex ==
    \/ \E documents \in Batches : AddDocuments(documents)
    \/ \E chunks \in CandidateBatches : AddCandidateChunks(chunks)
    \/ IndexDocumentsAgain
    \/ \E chunks \in Batches : LoadIndexFromDatabase(chunks)
    \/ \E query \in IndexQueries, top_k \in {1, 2} : IndexSearch(query, top_k)
    \/ \E queries \in VariantLists, top_k \in {1, 2} : IndexSearchWithExpansion(queries, top_k)

SpecIndex == InitIndex /\ [][NextIndex]_vars

----------------------------------------------------------------------------
(* Searches through the cache while ingestion adds to the index             *)

\* the store and the providers work
StaleEnvs == {e \in Envs : FaultCount(e) = 0}

\* the requests whose ranking reads the lexical index
StaleRequests == {request \in ApiRequests : request.search_type # "semantic"}

NextStale ==
    \/ \E request \in StaleRequests, env \in StaleEnvs : ApiSearch(request, env)
    \/ \E chunks \in {b \in CandidateBatches : Len(b) = 1} : AddCandidateChunks(chunks)
    \/ Tick

SpecStale == InitSearch /\ [][NextStale]_vars

----------------------------------------------------------------------------
(* index_documents statement by statement, with a search on the same        *)
(* BM25Search instance from another thread                                  *)

\* the statement of index_documents that runs after the given one
StepAfter(pc) ==
    CASE pc = "documents" -> "doc_lengths"
      [] pc = "doc_lengths" -> "avgdl"
      [] pc = "avgdl" -> "doc_freqs"
      [] pc = "doc_freqs" -> "idf"
      [] pc = "idf" -> "indexed"
      [] pc = "indexed" -> "idle"

\* the effect of one statement of index_documents on the instance
IndexStep(index, pc, documents) ==
    CASE pc = "documents" ->
           [index EXCEPT !.documents =
               [i \in 1..Len(documents) |->
                   [id |-> documents[i].id, candidate_id |-> documents[i].candidate_id,
                    content |-> documents[i].content,
                    tokens |-> Tokenize(documents[i].content)]]]
      [] pc = "doc_lengths" ->
           [index EXCEPT !.doc_lengths =
               [i \in 1..Len(index.documents) |-> Len(index.documents[i].tokens)]]
      [] pc = "avgdl" ->
           [index EXCEPT !.avgdl =
               IF Len(index.doc_lengths) > 0
               THEN [num |-> SumSeq(index.doc_lengths, 1), den |-> Len(index.doc_lengths)]
               ELSE [num |-> 0, den |-> 1]]
      [] pc = "doc_freqs" ->
           [index EXCEPT !.doc_freqs =
               [t \in UNION {Range(index.documents[i].tokens) : i \in 1..Len(index.documents)} |->
                   Cardinality({i \in 1..Len(index.documents) :
                                   t \in Range(index.documents[i].tokens)})]]
      [] pc = "idf" ->
           [index EXCEPT !.idf =
               [t \in DOMAIN index.doc_freqs |-> Idf(Len(index.documents), index.doc_freqs[t])]]
      [] pc = "indexed" -> [index EXCEPT !.indexed = TRUE]

\* BM25Search.search on whatever the attributes hold: _score_document reads
\* self.doc_lengths[doc_idx] for every document of self.documents
SearchOutcome(index, query, top_k) ==
    IF /\ index.indexed
       /\ Tokenize(query) # <<>>
       /\ Len(index.doc_lengths) < Len(index.documents)
    THEN [outcome |-> "IndexError", results |-> <<>>]
    ELSE [outcome |-> "returned", results |-> BM25SearchOne(index, query, top_k)]

\* a call of index_documents starts: self.documents = documents, tokenization
BeginIndexDocuments(documents) ==
    /\ ixPc = "idle"
    /\ bm25' = IndexStep(bm25, "documents", documents)
    /\ ixPc' = StepAfter("documents")
    /\ UNCHANGED <<ixLast, db, cache, now, lastCall, rrfVars, fbVars, detVars, callVars, memVars, ivVars, awVars>>

\* the running index_documents executes its next statement
ContinueIndexDocuments ==
    /\ ixPc # "idle"
    /\ bm25' = IndexStep(bm25, ixPc, <<>>)
    /\ ixPc' = StepAfter(ixPc)
    /\ UNCHANGED <<ixLast, db, cache, now, lastCall, rrfVars, fbVars, detVars, callVars, memVars, ivVars, awVars>>

\* BM25Search.search, at any moment
ConcurrentSearch(query, top_k) ==
    \E r \in {SearchOutcome(bm25, query, top_k)} :
        /\ ixLast' = [NoOp EXCEPT !.op = "search", !.index = bm25, !.queries = <<query>>,
                                  !.top_k = top_k, !.outcome = r.outcome,
                                  !.results = r.results]
        /\ UNCHANGED <<ixPc, engineVars, rrfVars, fbVars, detVars, callVars, memVars, ivVars, awVars>>

NextRebuild ==
    \/ \E documents \in CandidateBatches : BeginIndexDocuments(documents)
    \/ ContinueIndexDocuments
    \/ \E query \in {PythonDev, <<"C++">>} : ConcurrentSearch(query, 2)

SpecRebuild == InitIndex /\ [][NextRebuild]_vars


----------------------------------------------------------------------------
(* chat/memory.py: ConversationMemory over Redis lists with expiry.         *)
(* The store maps a key to [items, expires_at]; a list that was never       *)
(* given a time to live has expires_at = NoExpiry.                          *)

MemoryWindow == 2    \* max_messages of the ConversationMemory instance
MemoryTtl == 300     \* ttl_seconds of the ConversationMemory instance
MaxAdded == 3        \* add_message calls in all

SessionList == <<"s1", "s2">>
Sessions == Range(SessionList)
Contents == {"hi", "ok"}
NoExpiry == -1

\* ConversationMemory._get_key: f"chat:history:{session_id}"
GetKey(session_id) == <<"chat:history:", session_id>>

\* a key exists while it has not expired
ListLive(store, now_, key) ==
    /\ key \in DOMAIN store
    /\ (store[key].expires_at = NoExpiry \/ now_ < store[key].expires_at)

\* r.rpush(key, value): appends, creating the list when the key is absent
RPush(store, now_, key, value) ==
    [k \in DOMAIN store \cup {key} |->
        IF k # key THEN store[k]
        ELSE IF ListLive(store, now_, key)
             THEN [store[key] EXCEPT !.items = Append(@, value)]
             ELSE [items |-> <<value>>, expires_at |-> NoExpiry]]

\* Redis's 0-based index, counted from the end when negative
RedisIndex(n, i) == IF i < 0 THEN n + i ELSE i

\* an ltrim that keeps the first items instead
LTrimHead(store, now_, key, start, stop) ==
    IF ~ListLive(store, now_, key) THEN store
    ELSE [store EXCEPT ![key].items = SubSeq(@, 1, Min2(Len(@), -start))]

\* r.ltrim(key, start, stop): keeps items start..stop; an emptied list is removed
LTrim(store, now_, key, start, stop) ==
    IF ~ListLive(store, now_, key) THEN store
    ELSE LET n == Len(store[key].items)
             lo == Max2(RedisIndex(n, start), 0)
             hi == Min2(RedisIndex(n, stop), n - 1)
         IN  IF lo > hi
             THEN [k \in DOMAIN store \ {key} |-> store[k]]
             ELSE [store EXCEPT ![key].items = SubSeq(@, lo + 1, hi + 1)]

\* r.expire(key, seconds)
Expire(store, now_, key, seconds) ==
    IF ~ListLive(store, now_, key) THEN store
    ELSE [store EXCEPT ![key].expires_at = now_ + seconds]

\* r.lrange(key, start, stop)
LRange(store, now_, key, start, stop) ==
    IF ~ListLive(store, now_, key) THEN <<>>
    ELSE LET n == Len(store[key].items)
         IN  SubSeq(store[key].items, Max2(RedisIndex(n, start), 0) + 1,
                    Min2(RedisIndex(n, stop), n - 1) + 1)

\* ChatMessage (schemas/chat.py); timestamp defaults to datetime.utcnow()
ChatMessage(role, content, timestamp) ==
    [role |-> role, content |-> content, timestamp |-> timestamp]

\* message.model_dump_json()
ModelDumpJson(message) ==
    JsonDumps(<<message.role, message.content, message.timestamp>>)

\* ChatMessage(**json.loads(msg_json))
ParseMessage(msg_json) ==
    LET msg_data == JsonLoads(msg_json)
    IN  ChatMessage(msg_data[1], msg_data[2], msg_data[3])

\* ConversationMemory.add_message: rpush, ltrim to the window, expire
AddMessageTo(store, now_, session_id, message) ==
    LET key == GetKey(session_id)
        pushed == RPush(store, now_, key, ModelDumpJson(message))
        trimmed == LTrim(pushed, now_, key, -MemoryWindow, -1)
    IN  Expire(trimmed, now_, key, MemoryTtl)

\* ConversationMemory.get_history
GetHistoryOf(store, now_, session_id, limit) ==
    LET messages_json == LRange(store, now_, GetKey(session_id), 0, -1)
        messages == [i \in 1..Len(messages_json) |-> ParseMessage(messages_json[i])]
    IN  IF limit # None /\ Len(messages) > limit
        THEN SubSeq(messages, Len(messages) - limit + 1, Len(messages))
        ELSE messages

InitMemory ==
    /\ RRFIdle /\ EngineIdle /\ FallbackIdle /\ IndexIdle
    /\ DeterminismIdle /\ CallIdle /\ IntervalsIdle /\ WritersIdle
    /\ memStore = <<>>
    /\ memLog = [s \in Sessions |-> <<>>]
    /\ memLast = NoHistory

AddMessage(session_id, role, content) ==
    /\ SumSeq([i \in 1..Len(SessionList) |-> Len(memLog[SessionList[i]])], 1) < MaxAdded
    /\ \E message \in {ChatMessage(role, content, now)} :
         /\ memStore' = AddMessageTo(memStore, now, session_id, message)
         /\ memLog' = [memLog EXCEPT ![session_id] = Append(@, message)]
    /\ UNCHANGED <<memLast, engineVars, rrfVars, fbVars, ixVars, detVars, callVars, ivVars, awVars>>

GetHistory(session_id, limit) ==
    /\ memLast' = [session_id |-> session_id, limit |-> limit, time |-> now,
                   added |-> memLog[session_id],
                   messages |-> GetHistoryOf(memStore, now, session_id, limit)]
    /\ UNCHANGED <<memStore, memLog, engineVars, rrfVars, fbVars, ixVars, detVars, callVars, ivVars, awVars>>

NextMemory ==
    \/ \E s \in Sessions, content \in Contents : AddMessage(s, "user", content)
    \/ \E s \in Sessions, limit \in {None, 1} : GetHistory(s, limit)
    \/ Tick

SpecMemory == InitMemory /\ [][NextMemory]_vars

----------------------------------------------------------------------------
(* utils/experience.py: dates are day numbers 1..MaxDay, None is no date    *)

MaxDay == 3          \* latest date
MaxIntervals == 3    \* longest list given to merge_intervals

\* TimeInterval (dataclass)
TimeInterval(start, end) == [start |-> start, end |-> end]

\* TimeInterval.merge
MergeWith(last, other) ==
    TimeInterval(Min2(last.start, other.start), Max2(last.end, other.end))

\* "for start, end in intervals": skips start None, replaces end None by today,
\* keeps the intervals with start <= effective_end
RECURSIVE ToTimeIntervals(_, _, _)
ToTimeIntervals(intervals, today, i) ==
    IF i > Len(intervals) THEN <<>>
    ELSE LET start == intervals[i][1]
             end == intervals[i][2]
             effective_end == IF end # None THEN end ELSE today
             rest == ToTimeIntervals(intervals, today, i + 1)
         IN  IF start = None THEN rest
             ELSE IF start <= effective_end
                  THEN <<TimeInterval(start, effective_end)>> \o rest
                  ELSE rest

\* position of x in the sorted list s: after every element with start <= x.start
RECURSIVE InsertByStart(_, _)
InsertByStart(s, x) ==
    IF s = <<>> THEN <<x>>
    ELSE IF s[Len(s)].start <= x.start THEN Append(s, x)
    ELSE Append(InsertByStart(SubSeq(s, 1, Len(s) - 1), x), s[Len(s)])

\* time_intervals.sort(key=lambda x: x.start), a stable sort
RECURSIVE SortByStart(_)
SortByStart(s) ==
    IF s = <<>> THEN <<>>
    ELSE InsertByStart(SortByStart(SubSeq(s, 1, Len(s) - 1)), s[Len(s)])

\* a loop body that merges only when current starts before last ends
MergeStepStrict(merged, current) ==
    LET last == merged[Len(merged)]
    IN  IF current.start < last.end
        THEN [merged EXCEPT ![Len(merged)] = MergeWith(last, current)]
        ELSE Append(merged, current)

\* the body of "for current in time_intervals[1:]"
MergeStep(merged, current) ==
    LET last == merged[Len(merged)]
    IN  IF current.start <= last.end
        THEN [merged EXCEPT ![Len(merged)] = MergeWith(last, current)]
        ELSE Append(merged, current)

RECURSIVE MergeLoop(_, _, _)
MergeLoop(merged, time_intervals, i) ==
    IF i > Len(time_intervals) THEN merged
    ELSE MergeLoop(MergeStep(merged, time_intervals[i]), time_intervals, i + 1)

\* merge_intervals
MergeIntervals(intervals, today) ==
    IF intervals = <<>> THEN <<>>
    ELSE LET time_intervals == ToTimeIntervals(intervals, today, 1)
         IN  IF time_intervals = <<>> THEN <<>>
             ELSE LET sorted == SortByStart(time_intervals)
                  IN  MergeLoop(<<sorted[1]>>, sorted, 2)

Days == 1..MaxDay

\* (start_date, end_date) tuples; end_date None is an ongoing position
IntervalInputs == Days \X (Days \cup {None})

InitIntervals ==
    /\ RRFIdle /\ EngineIdle /\ FallbackIdle /\ IndexIdle
    /\ DeterminismIdle /\ CallIdle /\ MemoryIdle /\ WritersIdle
    /\ ivIn \in SeqsUpTo(IntervalInputs, MaxIntervals)
    /\ ivToday \in {MaxDay - 1, MaxDay}
    /\ ivOut = NotMerged

DoMergeIntervals ==
    /\ ~ivOut.done
    /\ ivOut' = [done |-> TRUE, merged |-> MergeIntervals(ivIn, ivToday)]
    /\ UNCHANGED <<ivIn, ivToday, engineVars, rrfVars, fbVars, ixVars, detVars, callVars, memVars, awVars>>

NextIntervals == DoMergeIntervals

SpecIntervals == InitIntervals /\ [][NextIntervals]_vars

----------------------------------------------------------------------------
(* Two ingestion tasks that call add_candidate_chunks on the same engine    *)
(* from two threads of one worker process                                   *)

Writers == {"w1", "w2"}

NoChunks == [chunks |-> <<>>, current_docs |-> <<>>]

InitWriters ==
    /\ RRFIdle /\ EngineIdle /\ FallbackIdle /\ IndexIdle
    /\ DeterminismIdle /\ CallIdle /\ MemoryIdle /\ IntervalsIdle
    /\ awPc = [w \in Writers |-> "idle"]
    /\ awDocs = [w \in Writers |-> NoChunks]

\* _update_bm25_index calls add_candidate_chunks, which runs up to the call of
\* index_documents: current_docs = list(self.bm25.documents) and the appends
ReadCurrentDocs(w, chunks) ==
    /\ awPc[w] = "idle"
    /\ awPc' = [awPc EXCEPT ![w] = "read"]
    /\ awDocs' = [awDocs EXCEPT ![w] = [chunks |-> chunks,
                                        current_docs |-> CurrentPlusNew(bm25, chunks)]]
    /\ UNCHANGED <<engineVars, rrfVars, fbVars, ixVars, detVars, callVars, memVars, ivVars>>

\* self.bm25.index_documents(current_docs) and the return
ReindexCurrentDocs(w) ==
    /\ awPc[w] = "read"
    /\ awPc' = [awPc EXCEPT ![w] = "done"]
    /\ bm25' = IndexDocuments(awDocs[w].current_docs)
    /\ UNCHANGED <<awDocs, db, cache, now, lastCall, rrfVars, fbVars, ixVars, detVars, callVars, memVars, ivVars>>

NextWriters ==
    \/ \E w \in Writers, chunks \in CandidateBatches : ReadCurrentDocs(w, chunks)
    \/ \E w \in Writers : ReindexCurrentDocs(w)

SpecWriters == InitWriters /\ [][NextWriters]_vars

----------------------------------------------------------------------------
(* Claims about the fusion engine (SpecRRF) *)

DocsOf(list) == {list[i][1] : i \in 1..Len(list)}

PositionsOf(list, d) == {i \in 1..Len(list) : list[i][1] = d}

EntriesOf(out, d) == {i \in 1..Len(out) : out[i].doc_id = d}

\* the score the formula 1/(k+r1) + 1/(k+r2) gives, compared without division
ExactlyBoth(score, r1, r2) ==
    score * (RRF_K + r1) * (RRF_K + r2) = RRFScale * ((RRF_K + r1) + (RRF_K + r2))

ExactlyOne(score, r) == score * (RRF_K + r) = RRFScale

\* C1: with no doc id repeated inside a list, a document at position r1 of
\* listA and r2 of listB has combined_score exactly 1/(k+r1) + 1/(k+r2), and a
\* document in one list only, at position r, has exactly 1/(k+r).
C1_RRFExactness ==
    ("merge" \in rrfDone /\ NoDup(rrfA) /\ NoDup(rrfB)) =>
        \A d \in DocsOf(rrfA) \cup DocsOf(rrfB) :
            \E i \in EntriesOf(rrfOut, d) :
                LET pa == PositionsOf(rrfA, d)
                    pb == PositionsOf(rrfB, d)
                    score == rrfOut[i].combined_score
                IN  /\ (pa # {} /\ pb # {}) =>
                        \A r1 \in pa, r2 \in pb : ExactlyBoth(score, r1, r2)
                    /\ (pa # {} /\ pb = {}) => \A r \in pa : ExactlyOne(score, r)
                    /\ (pa = {} /\ pb # {}) => \A r \in pb : ExactlyOne(score, r)

C1_Witness ==
    /\ "merge" \in rrfDone /\ NoDup(rrfA) /\ NoDup(rrfB)
    /\ \E d \in DocsOf(rrfA) \cap DocsOf(rrfB) :
          PositionsOf(rrfA, d) # PositionsOf(rrfB, d)
    /\ DocsOf(rrfA) \ DocsOf(rrfB) # {}
    /\ Len(rrfOut) = Cardinality(DocsOf(rrfA) \cup DocsOf(rrfB))

\* C2: the doc ids of merge's output are exactly the doc ids of the two
\* inputs, each of them once.
C2_RRFCompleteness ==
    "merge" \in rrfDone =>
        /\ {rrfOut[i].doc_id : i \in 1..Len(rrfOut)} = DocsOf(rrfA) \cup DocsOf(rrfB)
        /\ \A i, j \in 1..Len(rrfOut) : rrfOut[i].doc_id = rrfOut[j].doc_id => i = j

C2_Witness ==
    /\ "merge" \in rrfDone
    /\ DocsOf(rrfA) \ DocsOf(rrfB) # {}
    /\ DocsOf(rrfB) \ DocsOf(rrfA) # {}
    /\ DocsOf(rrfA) \cap DocsOf(rrfB) # {}
    /\ Len(rrfOut) = 3

RECURSIVE SumOver(_, _)
SumOver(out, I) ==
    IF I = {} THEN 0
    ELSE LET i == CHOOSE i \in I : TRUE
         IN  out[i].combined_score + SumOver(out, I \ {i})

FusedOf(c) == {i \in 1..Len(rrfOut) : rrfOut[i].candidate_id = c}

\* C3: a candidate's combined_score, from merge_candidate_level and from
\* _build_search_results alike, is the sum of the combined_score of the fused
\* entries of that candidate; the two paths return the same candidates with
\* the same scores.
C3_AggregateSum ==
    rrfDone = {"merge", "candidate", "hybrid"} =>
        /\ \A i \in 1..Len(rrfCand) :
              rrfCand[i].combined_score = SumOver(rrfOut, FusedOf(rrfCand[i].candidate_id))
        /\ \A i \in 1..Len(rrfHybrid) :
              rrfHybrid[i].combined_score
                  = SumOver(rrfOut, FusedOf(rrfHybrid[i].candidate_id))
        /\ {<<rrfCand[i].candidate_id, rrfCand[i].combined_score>> :
                i \in 1..Len(rrfCand)}
           = {<<rrfHybrid[i].candidate_id, rrfHybrid[i].combined_score>> :
                i \in 1..Len(rrfHybrid)}
        /\ {rrfCand[i].candidate_id : i \in 1..Len(rrfCand)}
           = {rrfOut[i].candidate_id : i \in 1..Len(rrfOut)}

C3_Witness ==
    /\ rrfDone = {"merge", "candidate", "hybrid"}
    /\ Len(rrfHybrid) = 2
    /\ \E i \in 1..Len(rrfHybrid) : Cardinality(FusedOf(rrfHybrid[i].candidate_id)) >= 2

----------------------------------------------------------------------------
(* Claims about the three-layer fallback (SpecFallback) *)

LayerNames == <<"Layer1", "Layer2", "Layer3">>

FaultFree(trace) == \A i \in 1..Len(trace) : trace[i].faults = 0

\* no candidate of the corpus is at this location
UnmatchableLocation(request) ==
    /\ request.location # NoneStr
    /\ \A i \in 1..Len(db) : CandidateProfile(db[i].candidate_id).location # request.location

\* without its location filter the request has matches in the corpus: chunks
\* that are similar to the query and whose owner passes the other filters
OtherwiseSatisfiable(request) ==
    SearchWithExpandedQueries(db, <<request.query>>, VECTOR_FETCH_K,
                              [location |-> NoneStr,
                               min_experience_years |-> request.min_experience_years,
                               required_skills |-> request.required_skills]) # <<>>

\* C4: a chat search with an unmatchable location and otherwise satisfiable
\* query and skills is empty at Layer 1 and gets its results at Layer 2, with
\* the Layer 2 note.
C4_ScenarioC ==
    (/\ fbPc = "done"
     /\ FaultFree(fbTrace)
     /\ UnmatchableLocation(fbRequest)
     /\ OtherwiseSatisfiable(fbRequest))
    => /\ Len(fbTrace) = 2
       /\ fbTrace[1].results = <<>>
       /\ fbTrace[2].results # <<>>
       /\ fbResult.candidates # <<>>
       /\ fbResult.search_note = NoteLayer2

\* C5: the layers are invoked in the order Layer 1, Layer 2, Layer 3, at most
\* once each, a layer only after the one before returned no results; the
\* procedure ends at the first non-empty layer or, after Layer 3, exhausted.
C5_LayerOrder ==
    /\ Len(fbTrace) <= 3
    /\ \A i \in 1..Len(fbTrace) : fbTrace[i].layer = LayerNames[i]
    /\ \A i \in 2..Len(fbTrace) :
          fbTrace[i - 1].outcome = "returned" /\ fbTrace[i - 1].results = <<>>
    /\ fbPc \in {"Layer1", "Layer2", "Layer3"} => LayerNames[Len(fbTrace) + 1] = fbPc
    /\ Len(fbTrace) >= 1 => fbTrace[1].request = fbRequest
    /\ fbPc = "done" =>
          /\ Len(fbTrace) >= 1
          /\ fbTrace[Len(fbTrace)].outcome = "returned"
          /\ fbTrace[Len(fbTrace)].results # <<>> \/ Len(fbTrace) = 3
    /\ fbPc = "raised" =>
          Len(fbTrace) >= 1 /\ fbTrace[Len(fbTrace)].outcome = "raised"

C5_Witness ==
    /\ fbPc = "done"
    /\ Len(fbTrace) = 3
    /\ fbTrace[3].results # <<>>

\* C6: the provenance note is empty exactly when the results come from
\* Layer 1; results of Layer 2 carry the relaxation note and results of
\* Layer 3 the semantic-fallback note, both non-empty.
C6_ProvenanceNote ==
    fbPc = "done" =>
        LET last == fbTrace[Len(fbTrace)]
        IN  /\ fbResult.search_note = ""
                <=> (last.layer = "Layer1" /\ fbResult.candidates # <<>>)
            /\ (last.layer = "Layer2" /\ last.results # <<>>)
                => (fbResult.search_note = NoteLayer2 /\ NoteLayer2 # "")
            /\ (last.layer = "Layer3" /\ last.results # <<>>)
                => (fbResult.search_note = NoteLayer3 /\ NoteLayer3 # "")

C6_Witness ==
    /\ fbPc = "done"
    /\ Len(fbTrace) = 2
    /\ fbResult.candidates # <<>>
    /\ fbResult.search_note = NoteLayer2

AllLayersEmpty ==
    /\ Len(fbTrace) = 3
    /\ \A i \in 1..3 : fbTrace[i].outcome = "returned" /\ fbTrace[i].results = <<>>

\* C7: when all three layers are empty the procedure returns, without
\* raising, an empty candidate list, an empty chunk list and a non-empty
\* "no data at all" marker; an error outcome is a raise, never this tuple.
C7_Exhausted ==
    /\ AllLayersEmpty =>
          /\ fbPc = "done"
          /\ fbResult = [candidates |-> <<>>, retrieved_chunks |-> <<>>,
                         search_note |-> NoteExhausted]
          /\ NoteExhausted # ""
    /\ fbPc = "raised" => ~AllLayersEmpty
    /\ (fbPc = "done" /\ ~AllLayersEmpty) => fbResult.candidates # <<>>

C7_Witness ==
    /\ AllLayersEmpty
    /\ fbPc = "done"
    /\ db # <<>>

\* x * 0.7, floored at 0, on hundredths of a year
ReducedYears(years) == Max2(0, (years * 7) \div 10)

\* C23: the Layer 2 request differs from the original request only in
\* location (dropped) and min_experience_years (reduced by 30%, never below
\* 0, None exactly when the original was None); required skills, search mode,
\* query, keyword-query override, expansion flag, top_k and include_sections
\* are those of the original request.
C23_Layer2Frame ==
    \A i \in 1..Len(fbTrace) :
        fbTrace[i].layer = "Layer2" =>
            fbTrace[i].request =
                [fbRequest EXCEPT
                    !.location = NoneStr,
                    !.min_experience_years =
                        IF @ = NoneYears THEN NoneYears ELSE ReducedYears(@)]

\* C24: the Layer 3 request keeps the original query text, has no location,
\* no min_experience_years and no required skills, is semantic, and its top_k
\* is at most 3 and at most the top_k of the original request.
C24_Layer3Request ==
    \A i \in 1..Len(fbTrace) :
        fbTrace[i].layer = "Layer3" =>
            LET request == fbTrace[i].request
            IN  /\ request.query = fbRequest.query
                /\ request.location = NoneStr
                /\ request.min_experience_years = NoneYears
                /\ request.required_skills = <<>>
                /\ request.search_type = "semantic"
                /\ request.top_k <= 3
                /\ request.top_k <= fbRequest.top_k

----------------------------------------------------------------------------
(* Claims about the result cache (SpecSearch) *)

\* the response the ranking pipeline gives for the last call
FreshResponse(call) ==
    [query |-> call.request.query,
     expanded_queries |-> call.fresh.expanded_queries,
     search_type |-> call.request.search_type,
     total_results |-> Len(call.fresh.filtered_results),
     results |-> Take(call.fresh.filtered_results, call.request.top_k)]

\* C8: whatever the result of a request, an identical request within the
\* TTL of the entry the first one stored, with a working store, is answered
\* from the cache and runs no ranking.
C8_CacheIdempotence ==
    (/\ lastCall.outcome # "none"
     /\ lastCall.entry_live
     /\ lastCall.env.get_fault = "none"
     /\ lastCall.env.set_fault = "none")
    => (lastCall.hit /\ ~lastCall.ranked)

\* C9: a response served from the cache equals the response computed on the
\* miss that stored it: results, total_results, expanded_queries, search_type.
C9_CachedResponseIdentical ==
    lastCall.hit =>
        /\ lastCall.response.results = lastCall.cached_from.results
        /\ lastCall.response.total_results = lastCall.cached_from.total_results
        /\ lastCall.response.expanded_queries = lastCall.cached_from.expanded_queries
        /\ lastCall.response.search_type = lastCall.cached_from.search_type

GetFailed(call) ==
    \/ call.env.get_fault = "connect"
    \/ call.env.get_fault = "decode" /\ call.entry_live

SetFailed(call) == call.env.set_fault # "none" /\ call.ranked /\ ~call.fresh.raised

\* C10: a failure of the store in get gives a miss, a failure in set stores
\* nothing and returns False, and in both cases search returns the freshly
\* computed response (unless the semantic provider itself raises).
C10_CacheFailureContained ==
    lastCall.outcome # "none" =>
        /\ GetFailed(lastCall) => (~lastCall.hit /\ lastCall.ranked)
        /\ SetFailed(lastCall) => (~lastCall.set_ok /\ ~lastCall.stored)
        /\ ((GetFailed(lastCall) \/ SetFailed(lastCall)) /\ ~lastCall.fresh.raised)
              => /\ lastCall.outcome = "returned"
                 /\ lastCall.response = FreshResponse(lastCall)

C10_Witness ==
    /\ lastCall.env.get_fault = "connect"
    /\ lastCall.env.set_fault = "connect"
    /\ lastCall.entry_live
    /\ lastCall.outcome = "returned"
    /\ lastCall.response.results # <<>>
    /\ ~lastCall.stored

----------------------------------------------------------------------------
(* Claims about provider failures (SpecSearch) *)

\* the BM25 queries Step 1 of search hands to the lexical index
BM25QueriesOf(call) ==
    IF call.request.keyword_query # NoText THEN <<call.request.keyword_query>>
    ELSE ExpandedSemanticQueries(call.request, call.env.llm)

\* the keyword-only ranking of the request of a call
KeywordRankingOf(call) ==
    Take(ApplyFilters(KeywordOnlyResults(bm25, BM25QueriesOf(call),
                                         call.request.top_k)[1], call.request),
         call.request.top_k)

\* C13: a hybrid search whose semantic provider raises does not fail: it
\* returns the keyword-only ranking of the request.
C13_HybridDegradesToKeyword ==
    (/\ lastCall.outcome # "none"
     /\ lastCall.ranked
     /\ lastCall.request.search_type = "hybrid"
     /\ lastCall.env.vector = "raises")
    => /\ lastCall.outcome = "returned"
       /\ lastCall.response.results = KeywordRankingOf(lastCall)

\* C14: with expansion disabled, or with an expansion provider that fails or
\* is unavailable, the query variants search uses are exactly <<query>>.
C14_ExpansionFallsBackToQuery ==
    (/\ lastCall.outcome # "none"
     /\ lastCall.ranked
     /\ ~lastCall.request.expand_query \/ lastCall.env.llm # "ok")
    => ExpandedSemanticQueries(lastCall.request, lastCall.env.llm)
          = <<lastCall.request.query>>

----------------------------------------------------------------------------
(* Claims about the order of merged results (SpecRRFOrder) *)

\* position of the first appearance of doc_id in the concatenated input lists
FirstAppearance(lists, doc_id) ==
    CHOOSE i \in 1..Len(lists) :
        /\ lists[i][1] = doc_id
        /\ \A j \in 1..(i - 1) : lists[j][1] # doc_id

\* position of the first chunk of candidate_id in the document-level merge
FirstChunk(doc_results, candidate_id) ==
    CHOOSE i \in 1..Len(doc_results) :
        /\ doc_results[i].candidate_id = candidate_id
        /\ \A j \in 1..(i - 1) : doc_results[j].candidate_id # candidate_id

DescendingByScore(out) ==
    \A i \in 1..Len(out) : \A j \in (i + 1)..Len(out) :
        out[i].combined_score >= out[j].combined_score

DocTiesInInputOrder(out) ==
    \A i \in 1..Len(out) : \A j \in (i + 1)..Len(out) :
        out[i].combined_score = out[j].combined_score
        => FirstAppearance(rrfA \o rrfB, out[i].doc_id) < FirstAppearance(rrfA \o rrfB, out[j].doc_id)

CandidateTiesInInputOrder(out, doc_results) ==
    \A i \in 1..Len(out) : \A j \in (i + 1)..Len(out) :
        out[i].combined_score = out[j].combined_score
        => FirstChunk(doc_results, out[i].candidate_id) < FirstChunk(doc_results, out[j].candidate_id)

HasTie(out) ==
    \E i \in 1..Len(out) : \E j \in (i + 1)..Len(out) :
        out[i].combined_score = out[j].combined_score

\* C17: the results of merge, merge_with_weights and merge_candidate_level are
\* ordered by descending combined score, and entries of equal score appear in
\* the order fixed by the input lists: documents by their first appearance in
\* the lists taken in order, candidates by their first chunk in the
\* document-level merge.
C17_MergedOrderWithTies ==
    /\ "merge" \in rrfDone
          => DescendingByScore(rrfOut) /\ DocTiesInInputOrder(rrfOut)
    /\ rrfWeighted # NoWeighted
          => DescendingByScore(rrfWeighted.out) /\ DocTiesInInputOrder(rrfWeighted.out)
    /\ "candidate" \in rrfDone
          => /\ DescendingByScore(rrfCand)
             /\ CandidateTiesInInputOrder(rrfCand, Merge(rrfA, rrfB))

C17_Witness ==
    /\ {"merge", "candidate"} \subseteq rrfDone
    /\ rrfWeighted # NoWeighted
    /\ HasTie(rrfOut) /\ HasTie(rrfWeighted.out) /\ HasTie(rrfCand)

----------------------------------------------------------------------------
(* Claims about the BM25 index (SpecIndex) *)

IdsOf(documents) == {documents[i].id : i \in 1..Len(documents)}

\* C11: after add_documents / update_bm25_index the index covers the union of
\* the documents indexed before and the new ones: every document indexed
\* before the call is still indexed.
C11_AddKeepsExisting ==
    ixLast.op = "add_documents"
    => IdsOf(ixLast.index.documents) \cup IdsOf(ixLast.docs) \subseteq IdsOf(bm25.documents)

\* the query has no token of two or more characters
NoQueryTokens(query) ==
    \A i \in 1..Len(query) : \A t \in Range(WordTokens(query[i])) : Len(t) < 2

\* C15: BM25Search.search returns the empty list, without raising and without
\* changing the index, when the index was never built or when the query
\* yields no tokens (it is empty or has only tokens shorter than two
\* characters).
C15_EmptyWithoutIndexOrTokens ==
    (/\ ixLast.op = "search"
     /\ ~ixLast.index.indexed \/ NoQueryTokens(ixLast.queries[1]))
    => /\ ixLast.outcome = "returned"
       /\ ixLast.results = <<>>
       /\ bm25 = ixLast.index

C15_Witness ==
    /\ ixLast.op = "search"
    /\ ixLast.index.indexed
    /\ "d2" \in IdsOf(ixLast.index.documents)
    /\ ixLast.queries = << <<"C++">> >>
    /\ ixLast.results = <<>>

\* the scores of doc_id in the complete rankings of the variants
VariantScores(index, queries, doc_id) ==
    {r.score : r \in {x \in UNION {Range(BM25SearchOne(index, queries[q], Len(index.documents))) :
                                      q \in 1..Len(queries)} : x.doc_id = doc_id}}

SetMax(S) == CHOOSE x \in S : \A y \in S : y <= x

\* C16: search_with_expansion returns every document id at most once, with the
\* maximum (not the sum) of its scores over the query variants, in descending
\* order of that score, at most top_k entries, and no document left out has a
\* higher maximum than a returned one.
C16_ExpansionKeepsMax ==
    ixLast.op = "search_with_expansion"
    => /\ Len(ixLast.results) <= ixLast.top_k
       /\ \A i \in 1..Len(ixLast.results) : \A j \in (i + 1)..Len(ixLast.results) :
             /\ ixLast.results[i].doc_id # ixLast.results[j].doc_id
             /\ ixLast.results[i].score >= ixLast.results[j].score
       /\ \A i \in 1..Len(ixLast.results) :
             \E scores \in {VariantScores(ixLast.index, ixLast.queries, ixLast.results[i].doc_id)} :
                 scores # {} /\ ixLast.results[i].score = SetMax(scores)
       /\ \A doc_id \in IdsOf(ixLast.index.documents) \ {ixLast.results[i].doc_id : i \in 1..Len(ixLast.results)} :
             \E scores \in {VariantScores(ixLast.index, ixLast.queries, doc_id)} :
                 scores # {}
                 => /\ Len(ixLast.results) = ixLast.top_k
                    /\ SetMax(scores) <= ixLast.results[ixLast.top_k].score

C16_Witness ==
    /\ ixLast.op = "search_with_expansion"
    /\ Len(ixLast.index.documents) > ixLast.top_k
    /\ Len(ixLast.results) = ixLast.top_k
    /\ \E i \in 1..Len(ixLast.results) :
           Cardinality({x \in VariantScores(ixLast.index, ixLast.queries, ixLast.results[i].doc_id) : x > 0}) >= 2

\* number of indexed documents that contain the term
DocumentFrequency(index, t) ==
    Cardinality({i \in 1..Len(index.documents) : t \in Range(Tokenize(index.documents[i].content))})

\* C18: in a built index the IDF never grows with the document frequency: for
\* terms t1, t2 with df(t1) <= df(t2), idf(t1) >= idf(t2); no IDF is below
\* epsilon.
C18_IdfMonotone ==
    bm25.indexed
    => /\ \A t1, t2 \in DOMAIN bm25.idf :
             DocumentFrequency(bm25, t1) <= DocumentFrequency(bm25, t2)
             => bm25.idf[t1] >= bm25.idf[t2]
       /\ \A t \in DOMAIN bm25.idf : bm25.idf[t] >= Epsilon

C18_Witness ==
    /\ bm25.indexed
    /\ \E t1, t2 \in DOMAIN bm25.idf :
          /\ DocumentFrequency(bm25, t1) < DocumentFrequency(bm25, t2)
          /\ bm25.idf[t1] > bm25.idf[t2]
          /\ bm25.idf[t2] = Epsilon

\* doc_lengths, avgdl, doc_freqs and idf are those of index.documents
StatisticsOfDocuments(index) ==
    LET n_docs == Len(index.documents)
        terms == UNION {Range(Tokenize(index.documents[i].content)) : i \in 1..n_docs}
    IN  /\ Len(index.doc_lengths) = n_docs
        /\ \A i \in 1..n_docs :
              index.doc_lengths[i] = Len(Tokenize(index.documents[i].content))
        /\ index.avgdl.den > 0
        /\ index.avgdl.num * n_docs = SumSeq(index.doc_lengths, 1) * index.avgdl.den
        /\ n_docs = 0 => index.avgdl.num = 0
        /\ DOMAIN index.doc_freqs = terms
        /\ \A t \in terms : index.doc_freqs[t] = DocumentFrequency(index, t)
        /\ DOMAIN index.idf = DOMAIN index.doc_freqs
        /\ \A t \in terms : index.idf[t] = Idf(n_docs, index.doc_freqs[t])

\* C25: after every completed index_documents, add_documents,
\* add_candidate_chunks and load_from_database the statistics are those of the
\* current document list, and index_documents called again with the same
\* documents leaves the index as it was.
C25_StatisticsOfCurrentDocuments ==
    /\ StatisticsOfDocuments(bm25)
    /\ ixLast.op = "index_documents" => bm25 = ixLast.index

\* three documents of uneven length, indexed again
C25_Witness ==
    /\ ixLast.op = "index_documents"
    /\ Len(bm25.documents) = 3
    /\ bm25.avgdl.num % bm25.avgdl.den # 0
    /\ \E t \in DOMAIN bm25.doc_freqs : bm25.doc_freqs[t] >= 2

\* C26: no two documents of the index have the same id, whatever index
\* operations were made, add_candidate_chunks with chunk ids that are already
\* indexed included.
C26_UniqueIds ==
    \A i, j \in 1..Len(bm25.documents) :
        bm25.documents[i].id = bm25.documents[j].id => i = j

\* C29: on a built index of N >= 1 documents a search whose query has at
\* least one token returns exactly min(top_k, N) entries, the documents that
\* contain no query term with score 0.
C29_ResultCount ==
    (/\ ixLast.op = "search"
     /\ ixLast.index.indexed
     /\ Len(ixLast.index.documents) >= 1
     /\ Tokenize(ixLast.queries[1]) # <<>>)
    => /\ Len(ixLast.results) = Min2(ixLast.top_k, Len(ixLast.index.documents))
       /\ \A i \in 1..Len(ixLast.results) :
             (\A d \in 1..Len(ixLast.index.documents) :
                 ixLast.index.documents[d].id = ixLast.results[i].doc_id
                 => Range(Tokenize(ixLast.queries[1]))
                      \cap Range(Tokenize(ixLast.index.documents[d].content)) = {})
             => ixLast.results[i].score = 0

\* no indexed document contains a query term, and top_k entries come back
C29_Witness ==
    /\ ixLast.op = "search"
    /\ Len(ixLast.index.documents) >= 2
    /\ Tokenize(ixLast.queries[1]) # <<>>
    /\ Len(ixLast.results) = ixLast.top_k
    /\ \A i \in 1..Len(ixLast.results) : ixLast.results[i].score = 0

----------------------------------------------------------------------------
(* Claims about concurrent index updates (SpecWriters) *)

\* C27: index rebuilds are serialized, the read of the current documents of
\* one add_candidate_chunks call never falling between the read and the
\* rebuild of another, so that after two concurrent calls completed the index
\* contains the chunks of both.
C27_NoLostUpdate ==
    (\A w \in Writers : awPc[w] = "done") =>
        \A w \in Writers : IdsOf(awDocs[w].chunks) \subseteq IdsOf(bm25.documents)

----------------------------------------------------------------------------
(* Claims about the section filter (SpecSections) *)

\* what the same call ranks for the request without its include_sections
WithoutSections(call) ==
    RankingPipeline([call.request EXCEPT !.include_sections = <<>>], bm25, db, call.env)

SectionsOf(request) ==
    {LowerWord(request.include_sections[i]) : i \in 1..Len(request.include_sections)}

CandidatesOf(results) == {results[i].candidate_id : i \in 1..Len(results)}

\* the candidate has no matched chunk in one of the sections
AllChunksFail(result, sections) ==
    \A j \in 1..Len(result.matched_chunks) :
        LowerWord(result.matched_chunks[j].section) \notin sections

\* C28: with a non-empty include_sections every candidate of the response has
\* at least one matched chunk, every matched chunk is, case-insensitively, in
\* one of the sections, and a candidate whose chunks all fail is absent; with
\* an empty include_sections the filter removes no candidate and no chunk.
C28_SectionFilter ==
    lastCall.outcome = "returned" =>
        LET request == lastCall.request
            results == lastCall.response.results
        IN  /\ request.include_sections # <<>> =>
                  /\ \A i \in 1..Len(results) :
                        /\ results[i].matched_chunks # <<>>
                        /\ \A j \in 1..Len(results[i].matched_chunks) :
                              LowerWord(results[i].matched_chunks[j].section)
                                  \in SectionsOf(request)
                  /\ ~lastCall.hit /\ ~WithoutSections(lastCall).raised =>
                        \A c \in CandidatesOf(WithoutSections(lastCall).filtered_results) :
                            (\A r \in Range(WithoutSections(lastCall).filtered_results) :
                                r.candidate_id = c => AllChunksFail(r, SectionsOf(request)))
                            => c \notin CandidatesOf(results)
            /\ request.include_sections = <<>> /\ ~lastCall.hit =>
                  /\ ~lastCall.fresh.raised
                  /\ results = Take(lastCall.fresh.filtered_results, request.top_k)
                  /\ lastCall.fresh.filtered_results =
                        Dispatch(request, bm25, db, lastCall.env.vector,
                                 lastCall.fresh.expanded_queries)[1]

\* one candidate is dropped, another stays with fewer chunks, and the section
\* is given in another case than the chunk has it
C28_Witness ==
    /\ lastCall.outcome = "returned" /\ ~lastCall.hit
    /\ lastCall.request.include_sections = <<"SKILLS">>
    /\ lastCall.response.results # <<>>
    /\ ~WithoutSections(lastCall).raised
    /\ \E r \in Range(WithoutSections(lastCall).filtered_results) :
          r.candidate_id \notin CandidatesOf(lastCall.response.results)
    /\ \E r \in Range(WithoutSections(lastCall).filtered_results) :
          \E i \in 1..Len(lastCall.response.results) :
              /\ lastCall.response.results[i].candidate_id = r.candidate_id
              /\ Len(lastCall.response.results[i].matched_chunks) < Len(r.matched_chunks)

----------------------------------------------------------------------------
(* Claims about the cache under index changes (SpecStale) *)

\* a request with a live, non-empty entry is served from it, without ranking,
\* and gets the results that were cached; without a live entry it is ranked
ServedFromLiveEntry(call) ==
    /\ call.entry_live /\ call.cached_from.results # <<>> =>
          /\ call.hit /\ ~call.ranked
          /\ call.response.results = call.cached_from.results
    /\ ~call.entry_live => ~call.hit /\ call.ranked

----------------------------------------------------------------------------
(* Claims about searches during a rebuild (SpecRebuild) *)

\* the attributes are those one index_documents call leaves for the documents
SingleSnapshot(index) ==
    index = IndexDocuments([i \in 1..Len(index.documents) |-> RawDocument(index.documents[i])])

\* C12: a search that runs while index_documents rebuilds the index scores
\* against documents, doc_lengths, avgdl, doc_freqs and idf of one and the same
\* snapshot, and returns.
C12_NoTornIndex ==
    (/\ ixLast.op = "search"
     /\ ixLast.index.indexed
     /\ Tokenize(ixLast.queries[1]) # <<>>)
    => /\ SingleSnapshot(ixLast.index)
       /\ ixLast.outcome = "returned"

\* a finished index_documents leaves the attributes IndexDocuments computes
RebuildAgrees == (ixPc = "idle" /\ bm25.indexed) => SingleSnapshot(bm25)

----------------------------------------------------------------------------
(* Claims about repeated invocations (SpecDeterminism) *)

----------------------------------------------------------------------------
(* Claims about provider calls (SpecCalls) *)

\* C20: a call of search that waits for the semantic provider is never blocked
\* for good: whenever it waits, the await can end (by the response, or by
\* abandoning a provider that never responds), and search goes on to return.
C20_SearchNeverBlocks == callPc = "awaiting_vector" => ENABLED VectorResponds

----------------------------------------------------------------------------
(* Claims about the conversation memory (SpecMemory) *)

LastN(s, n) == SubSeq(s, Max2(Len(s) - n, 0) + 1, Len(s))

\* the list of a session is gone once MemoryTtl seconds passed since the
\* last add_message on it
SessionExpired(added, time) ==
    added # <<>> /\ time - added[Len(added)].timestamp >= MemoryTtl

\* the messages added since the list of the session was last created: an
\* add_message made on an expired list starts a new one
SinceExpiry(added) ==
    IF added = <<>> THEN <<>>
    ELSE LET first == CHOOSE i \in 1..Len(added) :
                 /\ i = 1 \/ SessionExpired(SubSeq(added, 1, i - 1), added[i].timestamp)
                 /\ \A j \in (i + 1)..Len(added) :
                        ~SessionExpired(SubSeq(added, 1, j - 1), added[j].timestamp)
         IN  SubSeq(added, first, Len(added))

\* C21, as stated: get_history returns at most max_messages messages, exactly
\* the most recently added max_messages ones of the session (all of them if
\* fewer were added), oldest first.
C21_LastOfAllAdded ==
    memLast # NoHistory /\ memLast.limit = None =>
        /\ Len(memLast.messages) <= MemoryWindow
        /\ memLast.messages = LastN(memLast.added, MemoryWindow)

\* C21, amended: get_history returns at most max_messages messages; while the
\* session has not expired (less than ttl_seconds since its last add_message)
\* they are exactly the most recent max_messages of the messages added since
\* the session's list was last created, oldest first; after it expired the
\* history is empty.
C21_LastOfAddedSinceExpiry ==
    memLast # NoHistory /\ memLast.limit = None =>
        /\ Len(memLast.messages) <= MemoryWindow
        /\ memLast.messages =
              IF SessionExpired(memLast.added, memLast.time) THEN <<>>
              ELSE LastN(SinceExpiry(memLast.added), MemoryWindow)

\* more messages than the window holds were added and the window is returned
C21_Witness ==
    /\ memLast.limit = None
    /\ Len(SinceExpiry(memLast.added)) > MemoryWindow
    /\ Len(memLast.messages) = MemoryWindow
    /\ memLast.messages[1] # memLast.messages[2]

----------------------------------------------------------------------------
(* Claims about merge_intervals (SpecIntervals) *)

\* the inputs that count: start <= end, an open end being today
ValidInputs ==
    {TimeInterval(ivIn[i][1], IF ivIn[i][2] # None THEN ivIn[i][2] ELSE ivToday) :
        i \in {j \in 1..Len(ivIn) :
                 ivIn[j][1] <= (IF ivIn[j][2] # None THEN ivIn[j][2] ELSE ivToday)}}

\* instants are counted in half days, to tell touching from adjacent intervals
Covers(intervals, instant) ==
    \E x \in intervals : 2 * x.start <= instant /\ instant <= 2 * x.end

\* C22: merge_intervals returns intervals sorted by start, each starting
\* strictly after the previous one ends, whose union is the union of the valid
\* inputs; inputs that overlap, contain one another or touch end up in one
\* interval.
C22_MergedIntervals ==
    ivOut.done =>
        LET merged == ivOut.merged
        IN  /\ \A i \in 1..Len(merged) : merged[i].start <= merged[i].end
            /\ \A i \in 1..(Len(merged) - 1) : merged[i + 1].start > merged[i].end
            /\ \A instant \in 2..(2 * MaxDay) :
                   Covers(Range(merged), instant) <=> Covers(ValidInputs, instant)
            /\ \A a, b \in ValidInputs :
                   a.start <= b.end /\ b.start <= a.end =>
                       \E i \in 1..Len(merged) :
                           /\ merged[i].start <= Min2(a.start, b.start)
                           /\ Max2(a.end, b.end) <= merged[i].end

\* inputs out of order, with a touching pair, an open end and an ignored
\* input, merged into a single interval
C22_Witness ==
    /\ ivOut.done /\ Len(ivOut.merged) = 1
    /\ Len(ivIn) = 3 /\ ivIn[1][1] > ivIn[2][1]
    /\ \E a, b \in ValidInputs : a.start < a.end /\ a.end = b.start /\ b.start < b.end
    /\ \E i \in 1..3 : ivIn[i][2] = None
    /\ Cardinality(ValidInputs) = 2


====
